---- MODULE Spec2Model ----
(***************************************************************************)
(* Model of the food-truck schedule pipeline: the name normalizer, the     *)
(* tiered name resolver, the cuisine classifier (scripts/lib/normalize.js) *)
(* and the scrape orchestrator / merge engine (scripts/scrape.js).         *)
(*                                                                         *)
(* A JavaScript string is a sequence of UTF-16 code units.  A code unit is *)
(* written as a one-character string when it is printable ASCII and as     *)
(* "Uxxxx" (its hexadecimal value) otherwise, so Len is String.length.     *)
(* Calendar dates are day numbers: day d is d days after Sunday            *)
(* 2026-02-15, so the ISO strings of the source compare as the numbers do. *)
(***************************************************************************)
EXTENDS Integers, Sequences, FiniteSets, TLC

(***************************************************************************)
(* Generic sequence helpers (Array.prototype / String.prototype methods).  *)
(***************************************************************************)
Range(s) == {s[i] : i \in 1..Len(s)}

\* Array.prototype.filter
Filter(s, Keep(_)) == SelectSeq(s, Keep)

\* String.prototype.includes: needle occurs in hay as a contiguous run
Includes(hay, needle) ==
    \E i \in 0..(Len(hay) - Len(needle)) :
        \A j \in 1..Len(needle) : hay[i + j] = needle[j]

\* index of the first element satisfying Test, 0 when there is none
\* (Array.prototype.find / a for-of loop that returns on the first hit)
FirstIndex(s, Test(_)) ==
    IF \E i \in 1..Len(s) : Test(s[i])
    THEN CHOOSE i \in 1..Len(s) : Test(s[i]) /\ \A j \in 1..(i - 1) : ~Test(s[j])
    ELSE 0

\* all sequences over S of length at most n
BoundedSeq(S, n) == UNION {[1..k -> S] : k \in 0..n}

(***************************************************************************)
(* Character classes used by normalizeName and generateId.                 *)
(***************************************************************************)
UpperLetters == <<"A","B","C","D","E","F","G","H","I","J","K","L","M",
                  "N","O","P","Q","R","S","T","U","V","W","X","Y","Z","U00C9">>
LowerLetters == <<"a","b","c","d","e","f","g","h","i","j","k","l","m",
                  "n","o","p","q","r","s","t","u","v","w","x","y","z","U00E9">>
DigitChars == <<"0","1","2","3","4","5","6","7","8","9">>

\* \w of a JavaScript regular expression without the u flag: [A-Za-z0-9_]
WordChars == (Range(UpperLetters) \ {"U00C9"}) \cup (Range(LowerLetters) \ {"U00E9"})
             \cup Range(DigitChars) \cup {"_"}

\* \s: space, tab, line feed, no-break space, ideographic space (among others)
WhiteSpace == {" ", "TAB", "LF", "U00A0", "U3000"}

\* the code units of the class [U+2605 U+2606 U+266A U+266B U+2764 U+FE0F U+1F31F U+2728]
\* of a regular expression without the u flag: the astral U+1F31F contributes
\* its two surrogates UD83C and UDF1F as separate members
DecorChars == {"U2605", "U2606", "U266A", "U266B", "U2764", "UFE0F",
               "UD83C", "UDF1F", "U2728"}

\* NFKC compatibility mappings of single code units (fullwidth and spacing forms)
CompatPairs == <<<<"U3000", " ">>, <<"U00A0", " ">>, <<"UFF21", "A">>,
                 <<"UFF41", "a">>, <<"UFF0D", "-">>>>

\* NFKC canonical compositions <<base, combining mark, composed>>
ComposePairs == <<<<"e", "U0301", "U00E9">>, <<"E", "U0301", "U00C9">>,
                  <<"n", "U0303", "U00F1">>>>

CompatChar(c) ==
    IF \E i \in 1..Len(CompatPairs) : CompatPairs[i][1] = c
    THEN CompatPairs[CHOOSE i \in 1..Len(CompatPairs) : CompatPairs[i][1] = c][2]
    ELSE c

RECURSIVE ComposeAcc(_, _)
ComposeAcc(out, rest) ==
    IF rest = <<>> THEN out
    ELSE LET c == Head(rest)
             hit == IF out = <<>> THEN {}
                    ELSE {i \in 1..Len(ComposePairs) :
                            /\ ComposePairs[i][1] = out[Len(out)]
                            /\ ComposePairs[i][2] = c}
         IN  IF hit # {}
             THEN ComposeAcc(SubSeq(out, 1, Len(out) - 1)
                               \o <<ComposePairs[CHOOSE i \in hit : TRUE][3]>>,
                             Tail(rest))
             ELSE ComposeAcc(Append(out, c), Tail(rest))

\* String.prototype.normalize('NFKC'): compatibility mapping, then composition
NFKC(s) == ComposeAcc(<<>>, [i \in 1..Len(s) |-> CompatChar(s[i])])

\* .replace(/[...decorations...]/g, '')
StripDecor(s) == Filter(s, LAMBDA c : c \notin DecorChars)

\* .replace(/\s+/g, ' ')
RECURSIVE CollapseWs(_)
CollapseWs(s) ==
    IF s = <<>> THEN <<>>
    ELSE IF Head(s) \in WhiteSpace
         THEN IF Len(s) > 1 /\ s[2] \in WhiteSpace
              THEN CollapseWs(Tail(s))
              ELSE <<" ">> \o CollapseWs(Tail(s))
         ELSE <<Head(s)>> \o CollapseWs(Tail(s))

\* String.prototype.trim
RECURSIVE TrimLeft(_)
TrimLeft(s) ==
    IF s # <<>> /\ Head(s) \in WhiteSpace THEN TrimLeft(Tail(s)) ELSE s

RECURSIVE TrimRight(_)
TrimRight(s) ==
    IF s # <<>> /\ s[Len(s)] \in WhiteSpace
    THEN TrimRight(SubSeq(s, 1, Len(s) - 1)) ELSE s

Trim(s) == TrimRight(TrimLeft(s))

LowerChar(c) ==
    IF \E i \in 1..Len(UpperLetters) : UpperLetters[i] = c
    THEN LowerLetters[CHOOSE i \in 1..Len(UpperLetters) : UpperLetters[i] = c]
    ELSE c

\* String.prototype.toLowerCase
ToLowerCase(s) == [i \in 1..Len(s) |-> LowerChar(s[i])]

\* normalizeName(raw)
normalizeName(raw) == ToLowerCase(Trim(CollapseWs(StripDecor(NFKC(raw)))))


(***************************************************************************)
(* generateId                                                              *)
(***************************************************************************)
\* decimal digits of a natural number (template literal `${Date.now()}`)
RECURSIVE DecimalString(_)
DecimalString(n) ==
    IF n < 10 THEN <<DigitChars[n + 1]>>
    ELSE Append(DecimalString(n \div 10), DigitChars[(n % 10) + 1])

\* .replace(/\s+/g, '-')
RECURSIVE SpacesToHyphen(_)
SpacesToHyphen(s) ==
    IF s = <<>> THEN <<>>
    ELSE IF Head(s) \in WhiteSpace
         THEN IF Len(s) > 1 /\ s[2] \in WhiteSpace
              THEN SpacesToHyphen(Tail(s))
              ELSE <<"-">> \o SpacesToHyphen(Tail(s))
         ELSE <<Head(s)>> \o SpacesToHyphen(Tail(s))

\* .replace(/-+/g, '-')
RECURSIVE CollapseHyphens(_)
CollapseHyphens(s) ==
    IF s = <<>> THEN <<>>
    ELSE IF Head(s) = "-" /\ Len(s) > 1 /\ s[2] = "-"
         THEN CollapseHyphens(Tail(s))
         ELSE <<Head(s)>> \o CollapseHyphens(Tail(s))

\* .replace(/^-|-$/g, ''): one leading and one trailing hyphen
TrimHyphens(s) ==
    LET a == IF s # <<>> /\ Head(s) = "-" THEN Tail(s) ELSE s
    IN  IF a # <<>> /\ a[Len(a)] = "-" THEN SubSeq(a, 1, Len(a) - 1) ELSE a

\* the slug before the fallback: every step of generateId but `|| truck-...`
Slug(name) ==
    TrimHyphens(CollapseHyphens(SpacesToHyphen(
        Filter(normalizeName(name),
               LAMBDA c : c \in WordChars \cup WhiteSpace \cup {"-"}))))

\* generateId(name), with Date.now() returning now
generateId(name, now) ==
    IF Slug(name) # <<>> THEN Slug(name)
    ELSE <<"t","r","u","c","k","-">> \o DecimalString(now)

(***************************************************************************)
(* ALIASES: the entries of the table that the model's names can reach or   *)
(* that differ in shape (decorated, double-spaced, fullwidth-spaced keys). *)
(* Each entry is <<normalized scraped name, truck id>>.                    *)
(***************************************************************************)
ALIASES == <<
    <<<<"b","u","r","n",".">>,
      <<"b","u","r","n">>>>,
    <<<<"m","r",".","c","h","i","c","k","e","n","U2605","t","o","r","i","h","a","n","t","e","n">>,
      <<"m","r","-","c","h","i","c","k","e","n">>>>,
    <<<<"m","r",".","c","h","i","c","k","e","n"," ","t","o","r","i","h","a","n","t","e","n">>,
      <<"m","r","-","c","h","i","c","k","e","n">>>>,
    <<<<"m","r",".","c","h","i","c","k","e","n">>,
      <<"m","r","-","c","h","i","c","k","e","n">>>>,
    <<<<"U9CF3">>,
      <<"o","t","o","r","i">>>>,
    <<<<"+","s","p","i","c","e">>,
      <<"p","l","u","s","-","s","p","i","c","e">>>>,
    <<<<"U84EE"," ","r","e","n">>,
      <<"r","e","n">>>>,
    <<<<"m","o","s","5","0">>,
      <<"m","o","s","5","0","5","0","t","h","-","m","o","s">>>>,
    <<<<"o","k","i","l","a","b">>,
      <<"o","k","i","l","a","b">>>>,
    <<<<"w","a","k","a","'","s"," ","k","i","t","c","h","e","n">>,
      <<"w","a","k","a","s","-","k","i","t","c","h","e","n">>>>,
    <<<<"w","a","k","a","'","s"," "," ","k","i","t","c","h","e","n">>,
      <<"w","a","k","a","s","-","k","i","t","c","h","e","n">>>>,
    <<<<"U897F","U4EAC","U5C4B","U3000","U5468">>,
      <<"s","a","i","k","y","o","y","a">>>>,
    <<<<"U97D3","U7F8E","U5473">>,
      <<"t","r","u","c","k","-","1","7","7","1","4","0","0","4","2","6","4","4","0">>>>
>>

\* ALIASES[normalized]: <<>> stands for undefined
AliasLookup(normalized) ==
    IF \E i \in 1..Len(ALIASES) : ALIASES[i][1] = normalized
    THEN ALIASES[CHOOSE i \in 1..Len(ALIASES) : ALIASES[i][1] = normalized][2]
    ELSE <<>>

(***************************************************************************)
(* findMatch(rawName, existingTrucks): the index of the returned truck in  *)
(* existingTrucks, 0 for null.  The source returns the array's own object, *)
(* so the caller's later writes to it are writes to existingTrucks[index]. *)
(* now is the value Date.now() returns inside generateId.                  *)
(***************************************************************************)
\* 0. manual alias table
AliasTier(rawName, existingTrucks) ==
    LET aliasId == AliasLookup(normalizeName(rawName))
    IN  IF aliasId # <<>>
        THEN FirstIndex(existingTrucks, LAMBDA t : t.id = aliasId)
        ELSE 0

\* 1. exact normalized match
ExactTier(rawName, existingTrucks) ==
    FirstIndex(existingTrucks,
               LAMBDA t : normalizeName(t.name) = normalizeName(rawName))

\* a floor that is applied to the longer of the two strings
SubstringHit_LongerFloor(normalized, existingNorm) ==
    LET longer == IF Len(normalized) > Len(existingNorm)
                  THEN normalized ELSE existingNorm
    IN  /\ Len(longer) >= 4
        /\ \/ Includes(normalized, existingNorm)
           \/ Includes(existingNorm, normalized)

\* the test of the substring loop's body for one truck
SubstringHit(normalized, existingNorm) ==
    LET shorter == IF Len(normalized) < Len(existingNorm)
                   THEN normalized ELSE existingNorm
    IN  /\ Len(shorter) >= 4
        /\ \/ Includes(normalized, existingNorm)
           \/ Includes(existingNorm, normalized)

\* 2. substring match
SubstringTier(rawName, existingTrucks) ==
    FirstIndex(existingTrucks,
               LAMBDA t : SubstringHit(normalizeName(rawName), normalizeName(t.name)))

\* 3. id-based match
SlugTier(rawName, existingTrucks, now) ==
    FirstIndex(existingTrucks, LAMBDA t : t.id = generateId(rawName, now))

\* a resolver that tries the exact tier before the alias table
findMatch_ExactFirst(rawName, existingTrucks, now) ==
    IF ExactTier(rawName, existingTrucks) # 0 THEN ExactTier(rawName, existingTrucks)
    ELSE IF AliasTier(rawName, existingTrucks) # 0 THEN AliasTier(rawName, existingTrucks)
    ELSE IF SubstringTier(rawName, existingTrucks) # 0
         THEN SubstringTier(rawName, existingTrucks)
    ELSE SlugTier(rawName, existingTrucks, now)

findMatch(rawName, existingTrucks, now) ==
    IF AliasTier(rawName, existingTrucks) # 0 THEN AliasTier(rawName, existingTrucks)
    ELSE IF ExactTier(rawName, existingTrucks) # 0 THEN ExactTier(rawName, existingTrucks)
    ELSE IF SubstringTier(rawName, existingTrucks) # 0
         THEN SubstringTier(rawName, existingTrucks)
    ELSE SlugTier(rawName, existingTrucks, now)

(***************************************************************************)
(* CUISINE_KEYWORDS, in table order; of each category the keywords written *)
(* in ASCII (and one non-Latin keyword) are kept.                          *)
(***************************************************************************)
CUISINE_KEYWORDS == <<
    [key |-> "hawaiian", label |-> "U30CF.U30EF.U30A4.U30A2.U30F3",
     keywords |-> <<<<"h","a","w","a","i","i">>,
                   <<"p","o","k","e">>,
                   <<"l","o","c","o">>,
                   <<"a","l","o","h","a">>>>],
    [key |-> "kebab", label |-> "U30B1.U30D0.U30D6",
     keywords |-> <<<<"k","e","b","a","b">>,
                   <<"h","a","l","a","l">>,
                   <<"f","a","l","a","f","e","l">>>>],
    [key |-> "korean", label |-> "U97D3.U56FD.U6599.U7406",
     keywords |-> <<<<"k","o","r","e","a">>,
                   <<"b","i","b","i","m","b","a","p">>,
                   <<"p","o","c","h","a">>,
                   <<"k","-","f","o","o","d">>,
                   <<"U97D3","U7F8E","U5473">>>>],
    [key |-> "vietnamese", label |-> "U30D9.U30C8.U30CA.U30E0",
     keywords |-> <<<<"v","i","e","t","n","a","m">>,
                   <<"b","a","n","h"," ","m","i">>,
                   <<"p","h","o">>>>],
    [key |-> "okinawan", label |-> "U6C96.U7E04.U6599.U7406",
     keywords |-> <<<<"o","k","i","n","a","w","a">>,
                   <<"t","a","c","o">>,
                   <<"s","p","a","m">>>>],
    [key |-> "chinese", label |-> "U4E2D.U83EF",
     keywords |-> <<<<"c","h","i","n","e","s","e">>,
                   <<"g","y","o","z","a">>,
                   <<"d","i","m","s","u","m">>>>],
    [key |-> "italian", label |-> "U30A4.U30BF.U30EA.U30A2.U30F3",
     keywords |-> <<<<"p","i","z","z","a">>,
                   <<"p","a","s","t","a">>,
                   <<"l","a","s","a","g","n","a">>,
                   <<"i","t","a","l","i","a","n">>,
                   <<"s","i","c","i","l">>>>],
    [key |-> "chicken", label |-> "U30C1.U30AD.U30F3",
     keywords |-> <<<<"c","h","i","c","k","e","n">>,
                   <<"r","o","t","i","s","s","e","r","i","e">>>>],
    [key |-> "curry", label |-> "U30AB.U30EC.U30FC",
     keywords |-> <<<<"c","u","r","r","y">>,
                   <<"b","i","r","y","a","n","i">>>>],
    [key |-> "meat", label |-> "U8089.U6599.U7406",
     keywords |-> <<<<"b","e","e","f">>,
                   <<"m","e","a","t">>,
                   <<"s","t","e","a","k">>,
                   <<"h","a","m","b","u","r","g">>,
                   <<"s","h","a","l","a","s","c","o">>,
                   <<"q","u","e"," ","b","o","m">>,
                   <<"l","a","m","b">>,
                   <<"p","o","r","k">>,
                   <<"b","o","u","c","h","e","r","i","e">>>>],
    [key |-> "asian", label |-> "U30A2.U30B8.U30A2.U30F3",
     keywords |-> <<<<"a","s","i","a","n">>,
                   <<"t","h","a","i">>,
                   <<"g","a","p","a","o">>,
                   <<"n","a","s","i">>,
                   <<"a","d","o","b","o">>,
                   <<"t","a","i","w","a","n">>>>],
    [key |-> "bread", label |-> "U30D1.U30F3",
     keywords |-> <<<<"b","r","e","a","d">>,
                   <<"s","a","n","d","w","i","c","h">>,
                   <<"h","o","t","d","o","g">>,
                   <<"b","u","r","g","e","r">>,
                   <<"c","o","p","p","e">>>>],
    [key |-> "japanese", label |-> "U548C.U98DF",
     keywords |-> <<<<"j","a","p","a","n","e","s","e">>,
                   <<"s","u","s","h","i">>,
                   <<"t","e","m","p","u","r","a">>>>],
    [key |-> "sweets", label |-> "U30B9.U30A4.U30FC.U30C4",
     keywords |-> <<<<"c","r","e","p","e">>,
                   <<"s","w","e","e","t","s">>,
                   <<"c","o","f","f","e","e">>,
                   <<"c","r","a","k","e","y">>>>],
    [key |-> "western", label |-> "U6D0B.U98DF",
     keywords |-> <<<<"w","e","s","t","e","r","n">>,
                   <<"o","m","u","r","i","c","e">>,
                   <<"b","i","s","t","r","o">>>>]
>>

UnknownCuisine == [cuisine |-> "unknown", cuisine_label |-> "?"]

\* a classifier in which the last matching category of the table wins
detectCuisine_LastWins(name, extraText) ==
    LET combined == normalizeName(name \o <<" ">> \o extraText)
        hits == {k \in 1..Len(CUISINE_KEYWORDS) :
                    \E i \in 1..Len(CUISINE_KEYWORDS[k].keywords) :
                        Includes(combined, CUISINE_KEYWORDS[k].keywords[i])}
    IN  IF hits # {}
        THEN LET k == CHOOSE k \in hits : \A j \in hits : j <= k
             IN  [cuisine |-> CUISINE_KEYWORDS[k].key,
                  cuisine_label |-> CUISINE_KEYWORDS[k].label]
        ELSE UnknownCuisine

\* detectCuisine(name, extraText)
detectCuisine(name, extraText) ==
    LET combined == normalizeName(name \o <<" ">> \o extraText)
        k == FirstIndex(CUISINE_KEYWORDS,
                        LAMBDA cat : \E i \in 1..Len(cat.keywords) :
                                        Includes(combined, cat.keywords[i]))
    IN  IF k # 0
        THEN [cuisine |-> CUISINE_KEYWORDS[k].key,
              cuisine_label |-> CUISINE_KEYWORDS[k].label]
        ELSE UnknownCuisine

\* a placeholder that keeps the raw name as scraped
createPlaceholder_RawName(rawName, extraText, now) ==
    [id |-> generateId(rawName, now),
     name |-> rawName,
     cuisine |-> detectCuisine(rawName, extraText).cuisine,
     cuisine_label |-> detectCuisine(rawName, extraText).cuisine_label,
     contact_instagram |-> <<>>,
     accepts_preorder |-> FALSE,
     url |-> <<>>]

\* createPlaceholder(rawName, extraText), with Date.now() returning now
createPlaceholder(rawName, extraText, now) ==
    [id |-> generateId(rawName, now),
     name |-> Trim(rawName),
     cuisine |-> detectCuisine(rawName, extraText).cuisine,
     cuisine_label |-> detectCuisine(rawName, extraText).cuisine_label,
     contact_instagram |-> <<>>,
     accepts_preorder |-> FALSE,
     url |-> <<>>]


(***************************************************************************)
(* Configuration and the bounded inputs of the pipeline.                   *)
(***************************************************************************)
\* Object.entries(VENUES), in insertion order: <<venue id, parser>>
VENUES == <<
    <<"kawabata", "kawabata">>,
    <<"otemachi-place", "mellow">>,
    <<"otemachi-park", "mellow">>,
    <<"marunouchi-trust", "mellow">>,
    <<"tokyo-torch-tower", "mellow">>,
    <<"tokyo-torch-park", "mellow">>,
    <<"sankei", "neo-yatai">>
>>

\* the venues the model runs: kawabata (parser kawabata) and sankei (parser
\* neo-yatai), in configuration order
VenueIds == <<VENUES[1][1], VENUES[7][1]>>
NumVenues == Len(VenueIds)
\* longest list of observations one scrape call returns
MaxEntries == 2
\* number of milliseconds Date.now() can advance during one run
MaxClock == 1
\* number of pipeline invocations in succession
MaxRuns == 2
\* the day the pipeline runs (1 = Monday 2026-02-16)
Today == 1

\* runWithRetry's default maxRetries
maxRetries == 2
\* the backoff unit of runWithRetry, in milliseconds
BackoffUnit == 1000
\* getCurrentWeekDates: the number of days of the window
WindowDays == 7

VenueSet == Range(VenueIds)

\* getCurrentWeekDates() when the clock's date is day
getCurrentWeekDates(day) == [i \in 1..WindowDays |-> day + i - 1]

\* new Date(d + 'T00:00:00').getDay(): 0 = Sunday
getDay(d) == d % 7

\* names the sources show
Name_BurnDot  == <<"B","u","r","n",".">>
Name_burn     == <<"b","u","r","n">>
Name_Otori    == <<"U9CF3">>
Name_Ren      == <<"U84EE">>
Name_BurnTaco == <<"B","u","r","n","."," ","T","a","c","o">>
Text_curry    == <<"s","p","i","c","e"," ","c","u","r","r","y">>

Id_burn == <<"b","u","r","n">>
Id_x1   == <<"x","1">>

Truck(id, name, cuisine, label) ==
    [id |-> id, name |-> name, cuisine |-> cuisine, cuisine_label |-> label,
     contact_instagram |-> <<>>, accepts_preorder |-> FALSE, url |-> <<>>]

\* registries trucks.json may hold when a run starts
InitRegistries == {
    <<>>,
    <<Truck(Id_burn, <<"B","U","R","N",".">>, "unknown", "?")>>,
    <<Truck(Id_x1, <<"B","u","r","n">>, "meat", "U8089.U6599.U7406"),
      Truck(Id_burn, <<"B","U","R","N",".">>, "unknown", "?")>>
}

\* the observations venue number k can show: {date, venue_id, truck_name_raw, detail_text}
Obs(d, v, n, t) == [date |-> d, venue_id |-> v, truck_name_raw |-> n, detail_text |-> t]

ObsPool(k) ==
    IF k % 2 = 1
    THEN {Obs(Today, VenueIds[k], Name_BurnDot, Text_curry),
          Obs(Today, VenueIds[k], Name_Otori, <<>>)}
    ELSE {Obs(Today + 1, VenueIds[k], Name_Ren, <<>>),
          Obs(Today, VenueIds[k], Name_burn, <<>>)}

\* what one successful scrape call can return for venue number k
ScrapeResults(k) == BoundedSeq(ObsPool(k), MaxEntries)

\* messages of the errors a scrape call throws ("" is an Error without message)
ErrMsgs == {"", "fetch failed: 503"}

\* an entry of a prior schedule.json, dated d
PriorEntry(d) == [date |-> d, venue_id |-> VenueIds[1], truck_id |-> Id_burn]

\* schedule arrays of a prior schedule.json: entries before, inside and after
\* the window, alone, mixed and repeated
PriorSchedules ==
    {<<>>,
     <<PriorEntry(Today - 1)>>,
     <<PriorEntry(Today)>>,
     <<PriorEntry(Today + WindowDays)>>,
     <<PriorEntry(Today - 1), PriorEntry(Today)>>,
     <<PriorEntry(Today), PriorEntry(Today)>>}

\* schedule.json when a run starts: absent, or an object with a schedule array
\* (kinds "corrupt", not valid JSON, and "noarray", an object without a
\* schedule array, are read by loadExistingSchedule as well)
InitSchedules == {[kind |-> "missing"]} \cup
                 {[kind |-> "ok", schedule |-> s] : s \in PriorSchedules}

\* trucks.json when a run starts: not valid JSON, an object without a trucks
\* list, or an object with one
InitTrucksFiles == {[kind |-> "corrupt"], [kind |-> "notrucks"]} \cup
                   {[kind |-> "ok", trucks |-> r] : r \in InitRegistries}

(***************************************************************************)
(* State.                                                                  *)
(***************************************************************************)
VARIABLES
    trucksFile,         \* trucks.json on disk
    scheduleFile,       \* schedule.json on disk
    pc,                 \* position of main()
    exitCode,           \* -1 while running, 0 (main resolved) or 1 (process.exit(1))
    clock,              \* the last value Date.now() returned
    run,                \* number of the current invocation
    heap,               \* the truck objects of this process, by reference
    trucksData,         \* trucksData.trucks: references into heap
    trucks,             \* the mutable copy [...trucksData.trucks]: references
    newTruckCount,
    weekDates,
    existingEntries,
    task,               \* per venue number: the state of its runWithRetry call
    sourceRuns,
    allRawEntries,
    cursor,             \* position of the resolution loop in allRawEntries
    newScheduleEntries,
    dedupedSchedule,
    log,                \* what this run did: loaded files, upgrades, writes
    prev,               \* what the previous invocation was given and wrote
    probe               \* one call of findMatch, for the resolver's own properties

vars == <<trucksFile, scheduleFile, pc, exitCode, clock, run, heap, trucksData,
          trucks, newTruckCount, weekDates, existingEntries, task, sourceRuns,
          allRawEntries, cursor, newScheduleEntries, dedupedSchedule,
          log, prev, probe>>

memVars == <<heap, trucksData, trucks, newTruckCount, weekDates, existingEntries,
             sourceRuns, allRawEntries, cursor, newScheduleEntries, dedupedSchedule>>

NoLog == [loadedTrucks |-> <<>>, loadedSchedule |-> <<>>, upgraded |-> {},
          wrote |-> <<>>, finished |-> <<>>]
NoPrev == [results |-> <<>>, weekDates |-> <<>>, schedule |-> <<>>]
\* result: -1 before the call, then the index findMatch returned
NoProbe == [rawName |-> <<>>, registry |-> <<>>, result |-> -1]
\* a runWithRetry call: its position, its locals attempt and lastError, the
\* delay of the timer it waits on, and the value it returned; the locals are
\* gone once it has returned
IdleTask == [phase |-> "idle", attempt |-> 0, lastError |-> "none", delay |-> 0,
             result |-> [status |-> "pending"]]

InitMemory ==
    /\ heap = <<>>
    /\ trucksData = <<>>
    /\ trucks = <<>>
    /\ newTruckCount = 0
    /\ weekDates = <<>>
    /\ existingEntries = <<>>
    /\ sourceRuns = <<>>
    /\ allRawEntries = <<>>
    /\ cursor = 1
    /\ newScheduleEntries = <<>>
    /\ dedupedSchedule = <<>>

Init ==
    /\ trucksFile \in InitTrucksFiles
    /\ scheduleFile \in InitSchedules
    /\ pc = "start"
    /\ exitCode = -1
    /\ clock = 0
    /\ run = 1
    /\ InitMemory
    /\ task = [k \in 1..NumVenues |-> IdleTask]
    /\ log = NoLog
    /\ prev = NoPrev
    /\ probe = NoProbe


(***************************************************************************)
(* Helpers of main().                                                      *)
(***************************************************************************)
\* the objects of the list as it was loaded: the trucks pushed since are left out
Deref_Loaded(h, refs) == [i \in 1..Len(trucksData) |-> h[refs[i]]]

\* the truck objects an array of references denotes
Deref(h, refs) == [i \in 1..Len(refs) |-> h[refs[i]]]

\* the last timestamp of invocation r
ClockCap(r) == r * (MaxClock + 1) - 1

\* the values the next Date.now() can return when the last one returned c
NowChoices(c, r) == {c} \cup (IF c < ClockCap(r) THEN {c + 1} ELSE {})

\* a load that bounds the dates from above only, so keeps past-dated entries
loadExistingSchedule_KeepPast(file, dates) ==
    IF file.kind # "ok" THEN <<>>
    ELSE Filter(file.schedule, LAMBDA e : e.date <= dates[Len(dates)])

\* a load that keeps only the entries dated after the window's first day
loadExistingSchedule_AfterToday(file, dates) ==
    IF file.kind # "ok" THEN <<>>
    ELSE Filter(file.schedule,
                LAMBDA e : /\ "date" \in DOMAIN e
                           /\ e.date \in Range(dates)
                           /\ e.date > dates[1])

\* loadExistingSchedule(weekDates) reading file; a missing or invalid file
\* throws in the try block and the catch returns [], an object without a
\* schedule array returns [] at line 70; the date of an entry without one is
\* undefined, which validDates does not hold
loadExistingSchedule(file, dates) ==
    IF file.kind # "ok" THEN <<>>
    ELSE Filter(file.schedule,
                LAMBDA e : /\ "date" \in DOMAIN e
                           /\ e.date \in Range(dates)
                           /\ e.date >= dates[1])

\* the value runWithRetry returns after a successful attempt
OkResult(k, entries) ==
    [venueId |-> VenueIds[k], status |-> "ok", entries |-> entries]

\* the value runWithRetry returns after the loop: lastError?.message || 'Unknown error'
ErrorResult(k, lastError) ==
    [venueId |-> VenueIds[k], status |-> "error", entries |-> <<>>,
     error |-> IF lastError # "" THEN lastError ELSE "Unknown error"]

\* a run log that leaves the error message out
SourceRun_NoError(data) ==
    [venue_id |-> data.venueId, status |-> data.status,
     entries_count |-> Len(data.entries)]

\* the record main pushes to sourceRuns for one result
SourceRun(data) ==
    IF "error" \in DOMAIN data /\ data.error # ""
    THEN [venue_id |-> data.venueId, status |-> data.status,
          entries_count |-> Len(data.entries), error |-> data.error]
    ELSE [venue_id |-> data.venueId, status |-> data.status,
          entries_count |-> Len(data.entries)]

RECURSIVE Flatten(_)
Flatten(ss) == IF ss = <<>> THEN <<>> ELSE Head(ss) \o Flatten(Tail(ss))

\* a backfill that does not look at the cuisine the truck has
UpgradeCuisine_AnyCuisine(h, ref, detailText) ==
    IF detailText # <<>>
    THEN LET d == detectCuisine(h[ref].name, detailText)
         IN  IF d.cuisine # "unknown"
             THEN [h EXCEPT ![ref].cuisine = d.cuisine,
                            ![ref].cuisine_label = d.cuisine_label]
             ELSE h
    ELSE h

\* the cuisine backfill of a matched truck: the heap after lines 184-191
UpgradeCuisine(h, ref, detailText) ==
    IF h[ref].cuisine = "unknown" /\ detailText # <<>>
    THEN LET d == detectCuisine(h[ref].name, detailText)
         IN  IF d.cuisine # "unknown"
             THEN [h EXCEPT ![ref].cuisine = d.cuisine,
                            ![ref].cuisine_label = d.cuisine_label]
             ELSE h
    ELSE h

ScheduleEntry(d, v, id) == [date |-> d, venue_id |-> v, truck_id |-> id]

\* e.venue_id as a property key or inside a template literal: an absent
\* field reads undefined, which prints as "undefined"
VenueOf(e) == IF "venue_id" \in DOMAIN e THEN e.venue_id ELSE "undefined"

\* `${e.truck_id}`
TruckIdOf(e) ==
    IF "truck_id" \in DOMAIN e THEN e.truck_id
    ELSE <<"u","n","d","e","f","i","n","e","d">>

\* the dedup key `${e.date}|${e.venue_id}|${e.truck_id}`; a date and a venue
\* id are strings without "|" and stand as one element each
MergeKey(e) == <<e.date, "|", VenueOf(e), "|">> \o TruckIdOf(e)

\* a merge whose filter never consults the seen set
Dedup_KeepAll(merged) == merged

\* merged.filter with the seen set: the first entry of every key, in order
RECURSIVE DedupAcc(_, _, _)
DedupAcc(out, seen, rest) ==
    IF rest = <<>> THEN out
    ELSE IF MergeKey(Head(rest)) \in seen
         THEN DedupAcc(out, seen, Tail(rest))
         ELSE DedupAcc(Append(out, Head(rest)),
                       seen \cup {MergeKey(Head(rest))}, Tail(rest))

Dedup(merged) == DedupAcc(<<>>, {}, merged)

\* [...new Set(schedule.map(e => e.venue_id))]: first occurrences, in order
RECURSIVE UniqueAcc(_, _)
UniqueAcc(out, rest) ==
    IF rest = <<>> THEN out
    ELSE IF Head(rest) \in Range(out) THEN UniqueAcc(out, Tail(rest))
         ELSE UniqueAcc(Append(out, Head(rest)), Tail(rest))

\* buildDataQuality(schedule, weekDates); per_venue lists the coverage
\* object's properties in insertion order as <<venue id, stats>>
buildDataQuality(schedule, dates) ==
    LET weekdays == Filter(dates, LAMBDA d : getDay(d) >= 1 /\ getDay(d) <= 5)
        venueIds == UniqueAcc(<<>>, [i \in 1..Len(schedule) |-> VenueOf(schedule[i])])
        Coverage(venueId) ==
            LET venueEntries == Filter(schedule, LAMBDA e : VenueOf(e) = venueId)
                datesWithData == {venueEntries[i].date : i \in 1..Len(venueEntries)}
            IN  [total_entries |-> Len(venueEntries),
                 days_with_data |-> Cardinality(datesWithData),
                 weekdays_in_window |-> Len(weekdays),
                 missing_weekdays |-> Filter(weekdays, LAMBDA d : d \notin datesWithData)]
    IN  [total_entries |-> Len(schedule),
         venues_scraped |-> Len(venueIds),
         weekdays_in_window |-> Len(weekdays),
         per_venue |-> [i \in 1..Len(venueIds) |-> <<venueIds[i], Coverage(venueIds[i])>>]]

\* the test of line 246-249
cuisineUpdated(h, tdata, trs) ==
    \E i \in 1..Len(trs) :
        /\ i <= Len(tdata)
        /\ h[tdata[i]].cuisine # h[trs[i]].cuisine

(***************************************************************************)
(* main(): load, launch the scrapers (lines 129-146).                      *)
(***************************************************************************)
Load ==
    /\ pc = "start"
    /\ trucksFile.kind = "ok"
    /\ heap' = trucksFile.trucks
    /\ trucksData' = [i \in 1..Len(trucksFile.trucks) |-> i]
    /\ trucks' = [i \in 1..Len(trucksFile.trucks) |-> i]
    /\ newTruckCount' = 0
    /\ weekDates' = getCurrentWeekDates(Today)
    /\ existingEntries' = loadExistingSchedule(scheduleFile, getCurrentWeekDates(Today))
    /\ task' = [k \in 1..NumVenues |-> [IdleTask EXCEPT !.phase = "running"]]
    /\ log' = [log EXCEPT !.loadedTrucks = trucksFile.trucks,
                          !.loadedSchedule = scheduleFile]
    /\ pc' = "scraping"
    /\ UNCHANGED <<trucksFile, scheduleFile, exitCode, clock, run, sourceRuns,
                   allRawEntries, cursor, newScheduleEntries, dedupedSchedule, prev, probe>>

\* JSON.parse of trucks.json throws, or the spread of an undefined trucks
\* list does: main rejects, the catch handler exits 1
LoadFail ==
    /\ pc = "start"
    /\ trucksFile.kind # "ok"
    /\ pc' = "fatal"
    /\ exitCode' = 1
    /\ UNCHANGED <<trucksFile, scheduleFile, clock, run, memVars, task,
                   log, prev, probe>>

(***************************************************************************)
(* runWithRetry(venueId, config, weekDates), one call per venue.           *)
(***************************************************************************)
\* The sources do not change between two invocations in succession: in a
\* later invocation a call ends as it ended in the one before (its earlier
\* attempts are free to fail or not).  A scenario fixes what the sources
\* serve in the same way.
Upstream(k, result) == IF prev.results = <<>> THEN TRUE ELSE prev.results[k] = result

\* the entry lists scraper.scrape can return for venue number k
Served(k) ==
    IF prev.results = <<>> THEN ScrapeResults(k)
    ELSE IF prev.results[k].status = "ok" THEN {prev.results[k].entries} ELSE {}

\* scraper.scrape returns: the call returns the ok result
ScrapeOk(k) ==
    /\ pc = "scraping"
    /\ task[k].phase = "running"
    /\ \E es \in Served(k) :
          /\ Upstream(k, OkResult(k, es))
          /\ task' = [task EXCEPT ![k] = [IdleTask EXCEPT !.phase = "returned",
                                                          !.result = OkResult(k, es)]]
    /\ log' = [log EXCEPT !.finished = Append(@, k)]
    /\ UNCHANGED <<trucksFile, scheduleFile, pc, exitCode, clock, run, memVars,
                   prev, probe>>

\* the delay runWithRetry waits before attempt number attempt (attempt > 0)
BackoffDelay(attempt) == BackoffUnit * attempt

\* a loop bound that is off by one: a fourth attempt
RetryAllowed_OneMore(attempt) == attempt <= maxRetries

\* the loop goes on after a failed attempt number attempt
RetryAllowed(attempt) == attempt + 1 <= maxRetries

\* the attempt throws: the catch records the error; the loop either starts
\* the next attempt, which first waits on its backoff timer, or ends and
\* the call returns the error result
ScrapeFail(k) ==
    /\ pc = "scraping"
    /\ task[k].phase = "running"
    /\ \E m \in ErrMsgs :
          IF RetryAllowed(task[k].attempt)
          THEN /\ task' = [task EXCEPT ![k].lastError = m,
                                       ![k].attempt = @ + 1,
                                       ![k].delay = BackoffDelay(task[k].attempt + 1),
                                       ![k].phase = "sleeping"]
               /\ log' = log
          ELSE /\ Upstream(k, ErrorResult(k, m))
               /\ task' = [task EXCEPT ![k] = [IdleTask EXCEPT !.phase = "returned",
                                                               !.result = ErrorResult(k, m)]]
               /\ log' = [log EXCEPT !.finished = Append(@, k)]
    /\ UNCHANGED <<trucksFile, scheduleFile, pc, exitCode, clock, run, memVars,
                   prev, probe>>

\* the backoff timer fires: the attempt calls the scraper
BackoffElapsed(k) ==
    /\ pc = "scraping"
    /\ task[k].phase = "sleeping"
    /\ task' = [task EXCEPT ![k].phase = "running", ![k].delay = 0]
    /\ UNCHANGED <<trucksFile, scheduleFile, pc, exitCode, clock, run, memVars,
                   log, prev, probe>>

Settled(t) == t.phase = "returned"

\* a join that goes on as soon as one call has returned
AllSettled_FirstWins(tasks) == \E k \in 1..NumVenues : Settled(tasks[k])

\* await Promise.allSettled(scraperPromises) is over
AllSettled(tasks) == \A k \in 1..NumVenues : Settled(tasks[k])

\* lines 157-162: the value of a fulfilled promise, and the stand-in record
\* for a promise that has no value
SettledData(t) ==
    IF Settled(t) THEN t.result
    ELSE [venueId |-> "unknown", status |-> "error", entries |-> <<>>,
          error |-> "Unknown error"]

(***************************************************************************)
(* main(): after Promise.allSettled (lines 148-172).                       *)
(***************************************************************************)
\* a join whose results come in the order in which the calls returned
ResultOrder_AsFinished(tasks, finished) == finished

\* the order of the results of Promise.allSettled: that of the promises it
\* was given, which is that of Object.entries(VENUES), whatever the order in
\* which they settled
ResultOrder(tasks, finished) == [k \in 1..Len(tasks) |-> k]

Collect ==
    /\ pc = "scraping"
    /\ AllSettled(task)
    /\ LET order == ResultOrder(task, log.finished)
           results == [i \in 1..NumVenues |-> SettledData(task[order[i]])]
       IN  /\ sourceRuns' = [k \in 1..NumVenues |-> SourceRun(results[k])]
           /\ allRawEntries' = Flatten([k \in 1..NumVenues |-> results[k].entries])
    /\ cursor' = 1
    /\ newScheduleEntries' = <<>>
    /\ pc' = "resolving"
    /\ UNCHANGED <<trucksFile, scheduleFile, exitCode, clock, run, heap, trucksData,
                   trucks, newTruckCount, weekDates, existingEntries, task,
                   dedupedSchedule, log, prev, probe>>

(***************************************************************************)
(* main(): one iteration of the resolution loop (lines 177-231).           *)
(***************************************************************************)
ResolveOne ==
    /\ pc = "resolving"
    /\ cursor <= Len(allRawEntries)
    /\ LET raw == allRawEntries[cursor]
           rawName == raw.truck_name_raw
           detailText == raw.detail_text
           registry == Deref(heap, trucks)
           \* Date.now() is called only on the fallback branch of generateId
           fallback == Slug(rawName) = <<>>
           slugTierRuns == /\ AliasTier(rawName, registry) = 0
                           /\ ExactTier(rawName, registry) = 0
                           /\ SubstringTier(rawName, registry) = 0
       IN  \E t1 \in (IF fallback /\ slugTierRuns THEN NowChoices(clock, run) ELSE {clock}) :
           LET match == findMatch(rawName, registry, t1)
           IN  IF match # 0
               THEN /\ heap' = UpgradeCuisine(heap, trucks[match], detailText)
                    /\ log' = [log EXCEPT !.upgraded =
                                 IF heap' # heap THEN @ \cup {trucks[match]} ELSE @]
                    /\ newScheduleEntries' = Append(newScheduleEntries,
                           ScheduleEntry(raw.date, raw.venue_id, registry[match].id))
                    /\ clock' = t1
                    /\ UNCHANGED <<trucks, newTruckCount>>
               ELSE \E t2 \in (IF fallback THEN NowChoices(t1, run) ELSE {t1}) :
                    LET placeholder == createPlaceholder(rawName, detailText, t2)
                        existing == FirstIndex(registry, LAMBDA t : t.id = placeholder.id)
                    IN  /\ clock' = t2
                        /\ IF existing # 0
                           THEN /\ heap' = UpgradeCuisine(heap, trucks[existing], detailText)
                                /\ log' = [log EXCEPT !.upgraded =
                                     IF heap' # heap THEN @ \cup {trucks[existing]} ELSE @]
                                /\ newScheduleEntries' = Append(newScheduleEntries,
                                     ScheduleEntry(raw.date, raw.venue_id,
                                                   registry[existing].id))
                                /\ UNCHANGED <<trucks, newTruckCount>>
                           ELSE /\ heap' = Append(heap, placeholder)
                                /\ trucks' = Append(trucks, Len(heap) + 1)
                                /\ newTruckCount' = newTruckCount + 1
                                /\ log' = log
                                /\ newScheduleEntries' = Append(newScheduleEntries,
                                     ScheduleEntry(raw.date, raw.venue_id, placeholder.id))
    /\ cursor' = cursor + 1
    /\ UNCHANGED <<trucksFile, scheduleFile, pc, exitCode, run, trucksData, weekDates,
                   existingEntries, task, sourceRuns, allRawEntries, dedupedSchedule, prev, probe>>

(***************************************************************************)
(* main(): merge and persist (lines 233-272).                              *)
(***************************************************************************)
Merge ==
    /\ pc = "resolving"
    /\ cursor > Len(allRawEntries)
    /\ dedupedSchedule' = Dedup(existingEntries \o newScheduleEntries)
    /\ pc' = "persistRegistry"
    /\ UNCHANGED <<trucksFile, scheduleFile, exitCode, clock, run, heap, trucksData,
                   trucks, newTruckCount, weekDates, existingEntries, task, sourceRuns,
                   allRawEntries, cursor, newScheduleEntries, log, prev, probe>>

\* step 8: trucks.json is written when the test of line 251 holds
PersistRegistry ==
    /\ pc = "persistRegistry"
    /\ IF newTruckCount > 0 \/ cuisineUpdated(heap, trucksData, trucks)
       THEN /\ trucksData' = trucks
            /\ trucksFile' = [kind |-> "ok", trucks |-> Deref(heap, trucks)]
            /\ log' = [log EXCEPT !.wrote = Append(@, "trucks.json")]
       ELSE UNCHANGED <<trucksData, trucksFile, log>>
    /\ pc' = "persistSchedule"
    /\ UNCHANGED <<scheduleFile, exitCode, clock, run, heap, trucks, newTruckCount,
                   weekDates, existingEntries, task, sourceRuns, allRawEntries, cursor,
                   newScheduleEntries, dedupedSchedule, prev, probe>>

\* steps 9-11: schedule.json is written, main resolves
PersistSchedule ==
    /\ pc = "persistSchedule"
    /\ scheduleFile' = [kind |-> "ok",
                        last_updated |-> clock,
                        week_start |-> weekDates[1],
                        week_end |-> weekDates[Len(weekDates)],
                        source_runs |-> sourceRuns,
                        data_quality |-> buildDataQuality(dedupedSchedule, weekDates),
                        schedule |-> dedupedSchedule]
    /\ log' = [log EXCEPT !.wrote = Append(@, "schedule.json")]
    /\ pc' = "done"
    /\ exitCode' = 0
    /\ UNCHANGED <<trucksFile, clock, run, memVars, task, prev, probe>>

\* step 10 fails: writeFileSync of schedule.json throws (the disk is full,
\* the file is not writable), main rejects and main().catch exits with 1;
\* what step 8 wrote stays on disk
PersistScheduleFail ==
    /\ pc = "persistSchedule"
    /\ pc' = "fatal"
    /\ exitCode' = 1
    /\ UNCHANGED <<trucksFile, scheduleFile, clock, run, memVars, task, log, prev, probe>>

Next ==
    \/ Load
    \/ LoadFail
    \/ \E k \in 1..NumVenues : ScrapeOk(k)
    \/ \E k \in 1..NumVenues : ScrapeFail(k)
    \/ \E k \in 1..NumVenues : BackoffElapsed(k)
    \/ Collect
    \/ ResolveOne
    \/ Merge
    \/ PersistRegistry
    \/ PersistSchedule
    \/ PersistScheduleFail

Spec == Init /\ [][Next]_vars

(***************************************************************************)
(* Two invocations in succession: a new process starts from the artifacts  *)
(* the one before has left, at a later time, against unchanged sources.    *)
(***************************************************************************)
Rerun ==
    /\ pc = "done"
    /\ run < MaxRuns
    /\ prev' = [results |-> [k \in 1..NumVenues |-> task[k].result],
                weekDates |-> weekDates,
                schedule |-> scheduleFile]
    /\ run' = run + 1
    /\ clock' = ClockCap(run) + 1
    /\ pc' = "start"
    /\ exitCode' = -1
    /\ heap' = <<>>
    /\ trucksData' = <<>>
    /\ trucks' = <<>>
    /\ newTruckCount' = 0
    /\ weekDates' = <<>>
    /\ existingEntries' = <<>>
    /\ sourceRuns' = <<>>
    /\ allRawEntries' = <<>>
    /\ cursor' = 1
    /\ newScheduleEntries' = <<>>
    /\ dedupedSchedule' = <<>>
    /\ task' = [k \in 1..NumVenues |-> IdleTask]
    /\ log' = NoLog
    /\ UNCHANGED <<trucksFile, scheduleFile, probe>>

NextTwice == Next \/ Rerun

SpecTwice == Init /\ [][NextTwice]_vars

(***************************************************************************)
(* One invocation on the inputs of the end-to-end scenarios: a registry    *)
(* holding the truck "mr-chicken", a decorated and a new name in the       *)
(* sources, an observation on a Saturday, and a prior schedule.json that   *)
(* is unreadable or holds incomplete entries.                              *)
(***************************************************************************)
Id_mrchicken == <<"m","r","-","c","h","i","c","k","e","n">>
Name_MrChicken == <<"M","r",".","C","h","i","c","k","e","n">>
\* U+30C1 U+30AD U+30F3
Name_Chikin == <<"U30C1","U30AD","U30F3">>
Name_MrChickenStar ==
    <<"M","r",".","C","h","i","c","k","e","n","U2605",
      "T","o","r","i","h","a","n","t","e","n">>
Name_TotallyNew ==
    <<" ","T","o","t","a","l","l","y"," ","N","e","w"," ","T","r","u","c","k">>
Id_TotallyNew ==
    <<"t","o","t","a","l","l","y","-","n","e","w","-","t","r","u","c","k">>
Text_bibimbap == <<"b","i","b","i","m","b","a","p">>

\* trucks.json of a scenario: the truck "mr-chicken" under a name the
\* decorated name contains, with and without a cuisine, and under a name in
\* another script; an empty list; an unreadable file
ScenarioTrucksFiles ==
    {[kind |-> "corrupt"]} \cup
    {[kind |-> "ok", trucks |-> r] : r \in
        {<<>>,
         <<Truck(Id_mrchicken, Name_MrChicken, "chicken", "U30C1.U30AD.U30F3")>>,
         <<Truck(Id_mrchicken, Name_MrChicken, "unknown", "?")>>,
         <<Truck(Id_mrchicken, Name_Chikin, "unknown", "?")>>}}

\* schedule.json of a scenario: absent, not valid JSON, without a schedule
\* array, or with an array holding an entry without a date, an entry with
\* nothing but a date, or a complete entry
ScenarioSchedules ==
    {[kind |-> "missing"], [kind |-> "corrupt"], [kind |-> "noarray"],
     [kind |-> "ok", schedule |-> <<[venue_id |-> VenueIds[1], truck_id |-> Id_burn]>>],
     [kind |-> "ok", schedule |-> <<[date |-> Today]>>],
     [kind |-> "ok", schedule |-> <<PriorEntry(Today)>>]}

\* a file that stands for "no prior data": unreadable, or with an entry that
\* lacks a field
Malformed(file) ==
    \/ file.kind # "ok"
    \/ \E i \in 1..Len(file.schedule) :
          DOMAIN file.schedule[i] # {"date", "venue_id", "truck_id"}

\* what the first source serves: the decorated name on the first day of the
\* window, a new name on its sixth day, or both
Obs_MrChickenStar == Obs(Today, VenueIds[1], Name_MrChickenStar, Text_bibimbap)
Obs_TotallyNew == Obs(Today + 5, VenueIds[1], Name_TotallyNew, Text_curry)

ScenarioEntries ==
    {<<Obs_MrChickenStar>>, <<Obs_TotallyNew>>, <<Obs_TotallyNew, Obs_MrChickenStar>>}

\* the results of the sources' calls: the other sources serve nothing
ScenarioResults ==
    {[k \in 1..NumVenues |-> OkResult(k, IF k = 1 THEN es ELSE <<>>)] :
        es \in ScenarioEntries}

InitScenario ==
    /\ trucksFile \in ScenarioTrucksFiles
    /\ scheduleFile \in ScenarioSchedules
    /\ pc = "start"
    /\ exitCode = -1
    /\ clock = 0
    /\ run = 1
    /\ InitMemory
    /\ task = [k \in 1..NumVenues |-> IdleTask]
    /\ log = NoLog
    /\ \E r \in ScenarioResults : prev = [NoPrev EXCEPT !.results = r]
    /\ probe = NoProbe

SpecScenario == InitScenario /\ [][Next]_vars

(***************************************************************************)
(* The resolver on its own: one call of findMatch on a bounded input.      *)
(***************************************************************************)
\* longest enumerated raw name
MaxNameLen == 3
\* largest enumerated registry
MaxTrucks == 2

ProbeAlphabet == {"a", "B", " ", "-", "U2605"}

\* raw names: every short string over the alphabet, and spellings of names
\* the alias table knows
ProbeNames ==
    BoundedSeq(ProbeAlphabet, MaxNameLen) \cup
    {Name_BurnDot, Name_burn, Name_Otori, Name_BurnTaco,
     <<"U2605", "B","U","R","N",".", "U3000">>,
     <<"m","o","s","5","0">>}

ProbeTrucks == {
    Truck(Id_burn, <<"Z","z">>, "unknown", "?"),
    Truck(Id_x1, <<"B","u","r","n",".">>, "unknown", "?"),
    Truck(<<"x","2">>, <<"a","B","a","B">>, "unknown", "?"),
    Truck(<<"a","-","b">>, <<"B","a">>, "unknown", "?"),
    Truck(<<"x","3">>, <<"M","o","s","5","0"," ","B","u","r","n",".">>, "unknown", "?")
}

ProbeRegistries == BoundedSeq(ProbeTrucks, MaxTrucks)

InitProbe ==
    /\ trucksFile = [kind |-> "corrupt"]
    /\ scheduleFile = [kind |-> "missing"]
    /\ pc = "probe"
    /\ exitCode = -1
    /\ clock = 0
    /\ run = 1
    /\ InitMemory
    /\ task = [k \in 1..NumVenues |-> IdleTask]
    /\ log = NoLog
    /\ prev = NoPrev
    /\ \E n \in ProbeNames, r \in ProbeRegistries :
          probe = [rawName |-> n, registry |-> r, result |-> -1]

\* const match = findMatch(rawName, registry)
CallFindMatch ==
    /\ pc = "probe"
    /\ probe.result = -1
    /\ probe' = [probe EXCEPT !.result = findMatch(probe.rawName, probe.registry, clock)]
    /\ UNCHANGED <<trucksFile, scheduleFile, pc, exitCode, clock, run, memVars, task,
                   log, prev>>

NextProbe == CallFindMatch

SpecResolver == InitProbe /\ [][NextProbe]_vars


(***************************************************************************)
(* The text functions on their own: normalizeName, generateId and          *)
(* detectCuisine, each called on a bounded input.                          *)
(***************************************************************************)
\* longest enumerated text
MaxTextLen == 3

\* code units the text functions treat differently: a letter of each case, a
\* combining acute accent, a decoration, an ideographic space, and the two
\* characters besides letters and digits that the slug's filter keeps
TextAlphabet == {"a", "E", "U0301", "U2605", "U3000", "_", "-"}

\* names carrying cuisine keywords: asian + korean in both orders, with and
\* without a hawaiian keyword, and a name with no keyword
Name_ThaiPocha     == <<"T","h","a","i"," ","P","o","c","h","a">>
Name_PochaThai     == <<"P","o","c","h","a"," ","T","h","a","i">>
Name_PokePochaThai == <<"P","o","k","e"," ","P","o","c","h","a"," ","T","h","a","i">>
Name_Pocha         == <<"P","o","c","h","a">>

TextNames ==
    BoundedSeq(TextAlphabet, MaxTextLen) \cup
    {Name_ThaiPocha, Name_PochaThai, Name_PokePochaThai, Name_Pocha, Name_BurnTaco} \cup
    {ALIASES[i][1] : i \in 1..Len(ALIASES)}

\* detail texts: none, an asian keyword, a kebab keyword
TextExtras == {<<>>, <<"n","a","s","i">>, <<"h","a","l","a","l">>}

\* the calls made so far (done) and what each returned
NoText == [rawName |-> <<>>, extraText |-> <<>>, done |-> {},
           normalized |-> <<>>, renormalized |-> <<>>, id |-> <<>>,
           cuisine |-> UnknownCuisine]

InitText ==
    /\ trucksFile = [kind |-> "corrupt"]
    /\ scheduleFile = [kind |-> "missing"]
    /\ pc = "text"
    /\ exitCode = -1
    /\ clock = 0
    /\ run = 1
    /\ InitMemory
    /\ task = [k \in 1..NumVenues |-> IdleTask]
    /\ log = NoLog
    /\ prev = NoPrev
    /\ \E n \in TextNames, e \in TextExtras :
          probe = [NoText EXCEPT !.rawName = n, !.extraText = e]

TextFrame ==
    UNCHANGED <<trucksFile, scheduleFile, pc, exitCode, clock, run, memVars, task,
                log, prev>>

\* normalizeName(raw)
CallNormalizeName ==
    /\ pc = "text"
    /\ "normalizeName" \notin probe.done
    /\ probe' = [probe EXCEPT !.normalized = normalizeName(probe.rawName),
                              !.done = @ \cup {"normalizeName"}]
    /\ TextFrame

\* normalizeName applied to what normalizeName returned
CallNormalizeAgain ==
    /\ pc = "text"
    /\ "normalizeName" \in probe.done
    /\ "again" \notin probe.done
    /\ probe' = [probe EXCEPT !.renormalized = normalizeName(probe.normalized),
                              !.done = @ \cup {"again"}]
    /\ TextFrame

\* generateId(name)
CallGenerateId ==
    /\ pc = "text"
    /\ "generateId" \notin probe.done
    /\ probe' = [probe EXCEPT !.id = generateId(probe.rawName, clock),
                              !.done = @ \cup {"generateId"}]
    /\ TextFrame

\* detectCuisine(name, extraText)
CallDetectCuisine ==
    /\ pc = "text"
    /\ "detectCuisine" \notin probe.done
    /\ probe' = [probe EXCEPT !.cuisine = detectCuisine(probe.rawName, probe.extraText),
                              !.done = @ \cup {"detectCuisine"}]
    /\ TextFrame

NextText ==
    \/ CallNormalizeName
    \/ CallNormalizeAgain
    \/ CallGenerateId
    \/ CallDetectCuisine

SpecText == InitText /\ [][NextText]_vars

(***************************************************************************)
(* The source adapters (scripts/scrapers/*.js) and the date helpers they   *)
(* use (scripts/lib/dates.js).  A page is the list of the elements the     *)
(* adapter's selectors visit, in document order.  The ISO string of a date *)
(* is the triple <<year, month, day>>.                                     *)
(***************************************************************************)
\* JP_DAYS: Sunday to Saturday
JP_DAYS == <<"U65E5", "U6708", "U706B", "U6C34", "U6728", "U91D1", "U571F">>
\* the code unit U+66DC of "youbi" and the two of "maishuu"
Yo == "U66DC"
Maishuu == <<"U6BCE", "U9031">>
\* JP_DAY_FULL
JP_DAY_FULL == [i \in 1..Len(JP_DAYS) |-> <<JP_DAYS[i], Yo, "U65E5">>]

\* Array.prototype.indexOf, 0-based, -1 when absent
IndexOf(s, x) ==
    IF \E i \in 1..Len(s) : s[i] = x
    THEN (CHOOSE i \in 1..Len(s) : s[i] = x /\ \A j \in 1..(i - 1) : s[j] # x) - 1
    ELSE -1

\* the ISO string YYYY-MM-DD of day number d (days of February and March 2026)
FormatDateISO(d) == IF d <= 13 THEN <<2026, 2, 15 + d>> ELSE <<2026, 3, d - 13>>

\* new Date().getFullYear()
CurrentYear == FormatDateISO(Today)[1]

\* a lookup that returns the parsed date without asking whether the window
\* holds it
DatesWithISO_NoWindowCheck(iso, targetDates) ==
    <<IF iso[2] = 2 THEN iso[3] - 15 ELSE iso[3] + 13>>

\* the dates of targetDates whose ISO string is iso (targetDates.has(parsed))
DatesWithISO(iso, targetDates) ==
    SelectSeq(targetDates, LAMBDA d : FormatDateISO(d) = iso)

\* jpDayToDate(jpDay, targetDates): <<>> for null, <<date>> otherwise
jpDayToDate(jpDay, targetDates) ==
    LET normalized == Trim(jpDay)
        short == IF Len(normalized) = 1 THEN IndexOf(JP_DAYS, normalized[1]) ELSE -1
        long  == IF short = -1 THEN IndexOf(JP_DAY_FULL, normalized) ELSE short
        idx   == IF long = -1 /\ normalized # <<>>
                 THEN IndexOf(JP_DAYS, normalized[1]) ELSE long
        hits  == SelectSeq(targetDates, LAMBDA d : getDay(d) = idx)
    IN  IF idx = -1 \/ hits = <<>> THEN <<>> ELSE <<hits[1]>>

\* parseRecurring(str): the day index, -1 for null
parseRecurring(str) ==
    IF ~Includes(str, Maishuu) THEN -1
    ELSE LET hit(i) == Includes(str, <<JP_DAYS[i], Yo>>)
         IN  IF \E i \in 1..Len(JP_DAYS) : hit(i)
             THEN (CHOOSE i \in 1..Len(JP_DAYS) :
                      hit(i) /\ \A j \in 1..(i - 1) : ~hit(j)) - 1
             ELSE -1

\* expandRecurring(dayIndex, targetDates)
expandRecurring(dayIndex, targetDates) ==
    SelectSeq(targetDates, LAMBDA d : getDay(d) = dayIndex)

\* parseJapaneseDate(`${m}/${d}`) with the year defaulted: the ISO string
parseJapaneseDate(md) == <<CurrentYear, md[1], md[2]>>

\* ---- kawabata.js ----
\* DAY_PATTERNS
DAY_PATTERNS == <<"U6708", "U706B", "U6C34", "U6728", "U91D1">>
\* the upper limit (exclusive) of a truck name's length
NameLengthLimit == 100

\* href.match(/\/list\/\d+/)
ListHref(href) ==
    \E i \in 0..(Len(href) - 7) :
        /\ SubSeq(href, i + 1, i + 6) = <<"/","l","i","s","t","/">>
        /\ href[i + 7] \in Range(DigitChars)

\* $link.text().trim().split('\n')[0].trim()
FirstLine(text) ==
    LET t == Trim(text)
        n == IndexOf(t, "LF")
    IN  Trim(IF n = -1 THEN t ELSE SubSeq(t, 1, n))

\* the name of a link: its h2, else the alt of its img, else its first line
LinkName(link) ==
    IF Trim(link.h2) # <<>> THEN Trim(link.h2)
    ELSE IF Trim(link.alt) # <<>> THEN Trim(link.alt)
    ELSE FirstLine(link.text)

\* $el.nextAll('ul').first(): the index of the first ul after element i, 0 if none
NextUl(page, i) ==
    IF \E j \in (i + 1)..Len(page) : page[j].tag = "ul"
    THEN CHOOSE j \in (i + 1)..Len(page) :
            page[j].tag = "ul" /\ \A k \in (i + 1)..(j - 1) : page[k].tag # "ul"
    ELSE 0

\* the first day of DAY_PATTERNS with text.includes(day + Yo), 0 if none
HeaderDay(text) ==
    IF \E d \in 1..Len(DAY_PATTERNS) : Includes(text, <<DAY_PATTERNS[d], Yo>>)
    THEN CHOOSE d \in 1..Len(DAY_PATTERNS) :
            /\ Includes(text, <<DAY_PATTERNS[d], Yo>>)
            /\ \A e \in 1..(d - 1) : ~Includes(text, <<DAY_PATTERNS[e], Yo>>)
    ELSE 0

\* what the callback of $('h2').each pushes for element i of the page
KawabataHeaderEntries(page, i, venueId, targetDates) ==
    LET el == page[i]
    IN  IF el.tag # "h2" \/ el.inAnchor \/ HeaderDay(Trim(el.text)) = 0 THEN <<>>
        ELSE LET currentDay == jpDayToDate(<<DAY_PATTERNS[HeaderDay(Trim(el.text))]>>, targetDates)
                 ul == NextUl(page, i)
             IN  IF currentDay = <<>> \/ ul = 0 THEN <<>>
                 ELSE LET links == SelectSeq(page[ul].links, LAMBDA l :
                                       /\ ListHref(l.href)
                                       /\ LinkName(l) # <<>>
                                       /\ Len(LinkName(l)) < NameLengthLimit)
                      IN  [k \in 1..Len(links) |->
                              [date |-> currentDay[1], venue_id |-> venueId,
                               truck_name_raw |-> LinkName(links[k]),
                               detailPath |-> links[k].href]]

\* phase 1 of scrape: rawEntries
KawabataRawEntries(page, venueId, targetDates) ==
    Flatten([i \in 1..Len(page) |-> KawabataHeaderEntries(page, i, venueId, targetDates)])

\* a scrape that drops the observations whose detail page gave no text
KawabataScrape_DropFailed(page, venueId, targetDates, details) ==
    LET rawEntries == KawabataRawEntries(page, venueId, targetDates)
        kept == SelectSeq(rawEntries, LAMBDA r : details[r.detailPath] # <<>>)
    IN  [k \in 1..Len(kept) |->
            Obs(kept[k].date, kept[k].venue_id, kept[k].truck_name_raw,
                details[kept[k].detailPath])]

\* phases 2 and 3: detailTextMap.get(raw.detailPath) || '', where details maps
\* a path to the text fetchDetailText returned for it ('' when it failed)
KawabataScrape(page, venueId, targetDates, details) ==
    LET rawEntries == KawabataRawEntries(page, venueId, targetDates)
    IN  [k \in 1..Len(rawEntries) |->
            Obs(rawEntries[k].date, rawEntries[k].venue_id,
                rawEntries[k].truck_name_raw, details[rawEntries[k].detailPath])]

\* ---- mellow.js ----
\* the shortest fullText and the shortest shop name a card may have
MinCardText == 5
MinShopName == 2

Path_shops == <<"/","s","s","_","w","e","b","/","s","h","o","p","s","/">>
Path_menus == <<"/","m","e","n","u","s","/">>

\* the length of $el.text().trim(): the card's title, its remaining text and
\* its date expressions (maishuu-X-youbi, Y/M/D, M/D, jikai-shutten M-gatsu D-nichi)
CardTextLen(card) ==
    LET digits(n) == Len(DecimalString(n))
    IN  Len(Trim(card.title)) + Len(Trim(card.rest))
        + (IF card.recurring # <<>> THEN Len(Maishuu) + 3 ELSE 0)
        + (IF card.ymd # <<>>
           THEN digits(card.ymd[1]) + digits(card.ymd[2]) + digits(card.ymd[3]) + 2 ELSE 0)
        + (IF card.md # <<>> THEN digits(card.md[1]) + digits(card.md[2]) + 1 ELSE 0)
        + (IF card.next # <<>> THEN digits(card.next[1]) + digits(card.next[2]) + 6 ELSE 0)

\* extractShopName($el, $): the card-title, else the text left when the date
\* and time patterns are stripped
extractShopName(card) ==
    IF Len(Trim(card.title)) >= MinShopName THEN Trim(card.title) ELSE Trim(card.rest)

\* href.startsWith('/') ? href : `/${href}`
ShopPath(href) == IF href # <<>> /\ href[1] = "/" THEN href ELSE <<"/">> \o href

\* the dates of one card, by the first date expression that applies
MellowCardDates(card, targetDates) ==
    IF /\ card.recurring # <<>>
       /\ parseRecurring(Maishuu \o <<card.recurring[1], Yo, "U65E5">>) # -1
    THEN expandRecurring(parseRecurring(Maishuu \o <<card.recurring[1], Yo, "U65E5">>),
                         targetDates)
    ELSE IF card.ymd # <<>> THEN DatesWithISO(card.ymd, targetDates)
    ELSE IF card.md # <<>>
         THEN DatesWithISO(<<CurrentYear, card.md[1], card.md[2]>>, targetDates)
    ELSE IF card.next # <<>>
         THEN DatesWithISO(<<CurrentYear, card.next[1], card.next[2]>>, targetDates)
    ELSE <<>>

\* what the callback of $('a[href*="/ss_web/shops/"]').each pushes for one link
MellowCardEntries(card, venueId, targetDates) ==
    IF \/ ~Includes(card.href, Path_shops)
       \/ Includes(card.href, Path_menus)
       \/ CardTextLen(card) < MinCardText
       \/ Len(extractShopName(card)) < MinShopName
    THEN <<>>
    ELSE LET dates == MellowCardDates(card, targetDates)
         IN  [k \in 1..Len(dates) |->
                 [date |-> dates[k], venue_id |-> venueId,
                  truck_name_raw |-> extractShopName(card),
                  shop_path |-> ShopPath(card.href)]]

\* rawEntries.filter with the seen set of `${date}|${truck_name_raw}` keys
RECURSIVE MellowDedup(_, _)
MellowDedup(rawEntries, seen) ==
    IF rawEntries = <<>> THEN <<>>
    ELSE LET e == Head(rawEntries)
             key == <<e.date, e.truck_name_raw>>
         IN  IF key \in seen THEN MellowDedup(Tail(rawEntries), seen)
             ELSE <<e>> \o MellowDedup(Tail(rawEntries), seen \cup {key})

\* scrape up to the deduplication
MellowDeduped(page, venueId, targetDates) ==
    MellowDedup(Flatten([i \in 1..Len(page) |->
                            MellowCardEntries(page[i], venueId, targetDates)]), {})

\* the rest of scrape: details maps a shop path to the text fetchShopDetail
\* returned for it
MellowScrape(page, venueId, targetDates, details) ==
    LET deduped == MellowDeduped(page, venueId, targetDates)
    IN  [k \in 1..Len(deduped) |->
            Obs(deduped[k].date, deduped[k].venue_id, deduped[k].truck_name_raw,
                details[deduped[k].shop_path])]

\* ---- neo-yatai.js ----
\* the longest vendor name kept
VendorNameMax == 100
\* the brackets removed from a vendor name
VendorBrackets == {"UFF62", "UFF63", "U300C", "U300D"}

\* SKIP_PATTERNS: a text that starts with U+3010 and holds a later U+3011
\* on the same line
SectionHeader(s) ==
    /\ s # <<>>
    /\ s[1] = "U3010"
    /\ \E j \in 2..Len(s) :
          s[j] = "U3011" /\ \A k \in 2..(j - 1) : s[k] # "LF"

\* tabDates: per tab the ISO string, <<>> for null
NeoTabDates(tabs) ==
    [i \in 1..Len(tabs) |->
        IF tabs[i] = <<>> THEN <<>> ELSE parseJapaneseDate(tabs[i])]

\* the vendors of one panel, cleaned, in order, each once
RECURSIVE NeoVendors(_, _)
NeoVendors(h4s, vendors) ==
    IF h4s = <<>> THEN <<>>
    ELSE LET vendorName == Trim(Head(h4s))
             cleaned == Trim(SelectSeq(vendorName, LAMBDA c : c \notin VendorBrackets))
         IN  IF \/ vendorName = <<>>
                \/ Len(vendorName) > VendorNameMax
                \/ SectionHeader(vendorName)
                \/ cleaned = <<>>
                \/ cleaned \in vendors
             THEN NeoVendors(Tail(h4s), vendors)
             ELSE <<cleaned>> \o NeoVendors(Tail(h4s), vendors \cup {cleaned})

\* what the callback of $('.cnt_tabs_inner > li').each pushes for one panel
NeoPanelEntries(page, panelIndex, venueId, targetDates) ==
    LET tabDates == NeoTabDates(page.tabs)
        iso == IF panelIndex <= Len(tabDates) THEN tabDates[panelIndex] ELSE <<>>
        dates == IF iso = <<>> THEN <<>> ELSE DatesWithISO(iso, targetDates)
    IN  IF dates = <<>> THEN <<>>
        ELSE LET names == NeoVendors(page.panels[panelIndex], {})
             IN  [k \in 1..Len(names) |->
                     [date |-> dates[1], venue_id |-> venueId,
                      truck_name_raw |-> names[k]]]

\* scrape
NeoYataiScrape(page, venueId, targetDates) ==
    Flatten([i \in 1..Len(page.panels) |-> NeoPanelEntries(page, i, venueId, targetDates)])

\* ---- the pages the adapters are run on ----
\* the longest page (kawabata: elements, mellow: cards)
MaxPageLen == 3
\* the largest number of tabs and of panels of a neo-yatai page
MaxTabs == 2

Name_Ab == <<"A","b">>
Name_Cd == <<"C","d">>
Href_list1 == <<"/","l","i","s","t","/","1">>
Href_list2 == <<"/","l","i","s","t","/","2">>
Href_top   == <<"/","t","o","p">>
Href_shopA == Path_shops \o <<"a">>
Href_shopB == <<"s","s","_","w","e","b","/","s","h","o","p","s","/","b">>
Href_menu  == Path_shops \o <<"a">> \o Path_menus \o <<"1">>

\* kawabata: a link of a day's list, a day header, a list
Link(href, h2, alt, text) == [href |-> href, h2 |-> h2, alt |-> alt, text |-> text]
H2(text, inAnchor) == [tag |-> "h2", text |-> text, inAnchor |-> inAnchor]
Ul(links) == [tag |-> "ul", links |-> links]

Link_Ab1    == Link(Href_list1, Name_Ab, <<>>, <<>>)
Link_Ab2Alt == Link(Href_list2, <<>>, Name_Ab, <<>>)
Link_CdText == Link(Href_list1, <<>>, <<>>, <<"LF", " ">> \o Name_Cd \o <<"LF", "x">>)
Link_Top    == Link(Href_top, Name_Cd, <<>>, <<>>)

Header_Mon == <<"U6708", Yo, "U65E5", "m","o","n","d","a","y">>
Header_Tue == <<"U706B", Yo, "U65E5">>
Header_Sat == <<"U571F", Yo, "U65E5">>

KawabataElements ==
    {H2(Header_Mon, FALSE), H2(Header_Tue, FALSE), H2(Header_Sat, FALSE),
     H2(Header_Mon, TRUE),
     Ul(<<>>), Ul(<<Link_Ab1>>), Ul(<<Link_Ab1, Link_Ab1>>),
     Ul(<<Link_Ab1, Link_Ab2Alt>>), Ul(<<Link_CdText, Link_Top>>)}

KawabataPages == BoundedSeq(KawabataElements, MaxPageLen)

\* mellow: a schedule card
Card(href, title, rest, recurring, ymd, md, next) ==
    [href |-> href, title |-> title, rest |-> rest, recurring |-> recurring,
     ymd |-> ymd, md |-> md, next |-> next]

\* the month and day of a date, as a page writes them
MonthDay(d) == <<FormatDateISO(d)[2], FormatDateISO(d)[3]>>

MellowCards ==
    {Card(Href_shopA, Name_Ab, <<>>, <<JP_DAYS[getDay(Today) + 1]>>, <<>>, <<>>,
          MonthDay(Today + WindowDays)),
     Card(Href_shopA, Name_Ab, <<>>, <<>>, FormatDateISO(Today + 1), <<>>, <<>>),
     Card(Href_shopB, <<>>, Name_Ab, <<>>, <<>>, MonthDay(Today), <<>>),
     Card(Href_shopB, Name_Cd, <<>>, <<>>, FormatDateISO(Today + WindowDays), <<>>,
          MonthDay(Today)),
     Card(Href_shopA, Name_Cd, <<>>, <<>>, <<>>, <<>>, MonthDay(Today + 1)),
     Card(Href_shopA, Name_Cd, <<>>, <<>>, <<>>, <<>>, MonthDay(Today - 1)),
     Card(Href_menu, Name_Ab, <<>>, <<JP_DAYS[getDay(Today) + 1]>>, <<>>, <<>>, <<>>),
     Card(Href_shopA, <<"X">>, <<>>, <<JP_DAYS[getDay(Today) + 1]>>, <<>>, <<>>, <<>>)}

MellowPages == BoundedSeq(MellowCards, MaxPageLen)

\* neo-yatai: the month/day of a tab (<<>>: a tab without a date) and the h4
\* texts of a panel
NeoTabs == {MonthDay(Today), MonthDay(Today + 1), MonthDay(Today + WindowDays), <<>>}
NeoPanels ==
    {<<>>,
     <<Name_Ab>>,
     <<Name_Ab, <<"U300C">> \o Name_Ab \o <<"U300D">>, Name_Cd>>,
     <<<<"U3010", "x", "U3011">>, Name_Cd, <<"U300C", "U300D">>>>}

NeoYataiPages ==
    {[tabs |-> t, panels |-> p] :
        t \in BoundedSeq(NeoTabs, MaxTabs), p \in BoundedSeq(NeoPanels, MaxTabs)}

\* the text a detail page yields when its fetch succeeds
DetailTextAt(path) == IF path = Href_list2 THEN Text_bibimbap ELSE Text_curry

\* fetchDetailText / fetchShopDetail over the paths: '' for the failed fetches
DetailTexts(paths, failed) ==
    [p \in paths |-> IF p \in failed THEN <<>> ELSE DetailTextAt(p)]

\* one scrape call: the parser, the page its source serves, whether the call
\* threw, the detail pages whose fetch failed, and the entries it returned
NoAdapter == [parser |-> "none", page |-> <<>>, done |-> FALSE, threw |-> FALSE,
              failed |-> {}, entries |-> <<>>]

AdapterWeekDates == getCurrentWeekDates(Today)

InitAdapter ==
    /\ trucksFile = [kind |-> "corrupt"]
    /\ scheduleFile = [kind |-> "missing"]
    /\ pc = "adapter"
    /\ exitCode = -1
    /\ clock = 0
    /\ run = 1
    /\ InitMemory
    /\ task = [k \in 1..NumVenues |-> IdleTask]
    /\ log = NoLog
    /\ prev = NoPrev
    /\ \/ \E p \in KawabataPages :
             probe = [NoAdapter EXCEPT !.parser = "kawabata", !.page = p]
       \/ \E p \in MellowPages :
             probe = [NoAdapter EXCEPT !.parser = "mellow", !.page = p]
       \/ \E p \in NeoYataiPages :
             probe = [NoAdapter EXCEPT !.parser = "neo-yatai", !.page = p]

\* scrape throws: the fetch of the list page threw or answered with !res.ok
ScrapeThrows ==
    /\ pc = "adapter"
    /\ ~probe.done
    /\ probe' = [probe EXCEPT !.done = TRUE, !.threw = TRUE]
    /\ TextFrame

\* kawabata.js scrape(config, targetDates), the list page fetched
ScrapeKawabata ==
    /\ pc = "adapter"
    /\ probe.parser = "kawabata"
    /\ ~probe.done
    /\ LET rawEntries == KawabataRawEntries(probe.page, VENUES[1][1], AdapterWeekDates)
           paths == {rawEntries[k].detailPath : k \in 1..Len(rawEntries)}
       IN  \E failed \in SUBSET paths :
              probe' = [probe EXCEPT
                          !.done = TRUE,
                          !.failed = failed,
                          !.entries = KawabataScrape(probe.page, VENUES[1][1],
                                          AdapterWeekDates, DetailTexts(paths, failed))]
    /\ TextFrame

\* mellow.js scrape(config, targetDates), the market page fetched
ScrapeMellow ==
    /\ pc = "adapter"
    /\ probe.parser = "mellow"
    /\ ~probe.done
    /\ LET deduped == MellowDeduped(probe.page, VENUES[2][1], AdapterWeekDates)
           paths == {deduped[k].shop_path : k \in 1..Len(deduped)}
       IN  \E failed \in SUBSET paths :
              probe' = [probe EXCEPT
                          !.done = TRUE,
                          !.failed = failed,
                          !.entries = MellowScrape(probe.page, VENUES[2][1],
                                          AdapterWeekDates, DetailTexts(paths, failed))]
    /\ TextFrame

\* neo-yatai.js scrape(config, targetDates), the schedule page fetched
ScrapeNeoYatai ==
    /\ pc = "adapter"
    /\ probe.parser = "neo-yatai"
    /\ ~probe.done
    /\ probe' = [probe EXCEPT
                    !.done = TRUE,
                    !.entries = NeoYataiScrape(probe.page, VENUES[7][1], AdapterWeekDates)]
    /\ TextFrame

NextAdapter ==
    \/ ScrapeThrows
    \/ ScrapeKawabata
    \/ ScrapeMellow
    \/ ScrapeNeoYatai

SpecAdapter == InitAdapter /\ [][NextAdapter]_vars

(***************************************************************************)
(* Properties.                                                             *)
(***************************************************************************)
Wrote(file) == file \in Range(log.wrote)
RunStarted == pc \in {"scraping", "resolving", "persistRegistry", "persistSchedule", "done"}
AfterJoin == pc \in {"resolving", "persistRegistry", "persistSchedule", "done"}
InWindow(d) == Today <= d /\ d <= Today + WindowDays - 1

\* C1: when every source's run ends in error, the run ends in a fatal error
\* (non-zero exit) and does not write schedule.json.
AllSourcesFailed ==
    /\ AfterJoin
    /\ \A k \in 1..NumVenues : sourceRuns[k].status = "error"

C1_AbortWhenAllSourcesFail ==
    AllSourcesFailed => (exitCode # 0 /\ ~Wrote("schedule.json"))

\* C2: the schedule a run persists holds no two entries with the same
\* (date, venue_id, truck_id).
C2_NoDuplicateTriples ==
    Wrote("schedule.json") =>
        \A i, j \in 1..Len(scheduleFile.schedule) :
            i # j =>
               <<scheduleFile.schedule[i].date, scheduleFile.schedule[i].venue_id,
                 scheduleFile.schedule[i].truck_id>>
               # <<scheduleFile.schedule[j].date, scheduleFile.schedule[j].venue_id,
                   scheduleFile.schedule[j].truck_id>>

\* a run wrote a schedule from which the merge had a repeated triple to drop
C2_Witness ==
    /\ Wrote("schedule.json")
    /\ Len(scheduleFile.schedule) < Len(existingEntries) + Len(newScheduleEntries)

\* C3: a second run over the same window, given the same observations and
\* the artifacts of the first, writes the schedule artifact of the first in
\* every field but last_updated.
SansTimestamp(file) ==
    [week_start |-> file.week_start, week_end |-> file.week_end,
     source_runs |-> file.source_runs, data_quality |-> file.data_quality,
     schedule |-> file.schedule]

C3_SecondRunSameArtifact ==
    (run > 1 /\ pc = "done" /\ prev.weekDates = weekDates) =>
        SansTimestamp(scheduleFile) = SansTimestamp(prev.schedule)

\* C4: the carry-over set is exactly the prior entries dated inside the
\* window (so none dated before its first day), and no entry the run
\* persists is dated before the window's first day.
C4_CarryOverIsWindow ==
    (RunStarted /\ log.loadedSchedule.kind = "ok") =>
        LET prior == log.loadedSchedule.schedule
        IN  /\ \A i \in 1..Len(prior) :
                  InWindow(prior[i].date) <=> prior[i] \in Range(existingEntries)
            /\ Range(existingEntries) \subseteq Range(prior)
            /\ Len(existingEntries) =
                  Cardinality({i \in 1..Len(prior) : InWindow(prior[i].date)})
            /\ Wrote("schedule.json") =>
                  \A i \in 1..Len(scheduleFile.schedule) :
                      scheduleFile.schedule[i].date >= Today

\* a finished run whose prior schedule held an entry dated before the window
C4_Witness ==
    /\ pc = "done"
    /\ log.loadedSchedule.kind = "ok"
    /\ \E i \in 1..Len(log.loadedSchedule.schedule) :
          log.loadedSchedule.schedule[i].date < Today

\* C5: trucks.json is rewritten by a run if and only if the run appended a
\* truck or upgraded a truck's cuisine from "unknown".
C5_RegistryWrittenIff ==
    pc \in {"persistSchedule", "done"} =>
        (Wrote("trucks.json") <=> (newTruckCount > 0 \/ log.upgraded # {}))

\* C6: a source whose every attempt failed yields an error result with zero
\* entries, recorded in source_runs with status "error", entries_count 0 and
\* the message; the run does not exit with an error for it and persists the
\* resolved observations of every source that succeeded.
C6_FailureIsolated ==
    /\ \A k \in 1..NumVenues :
          (Settled(task[k]) /\ task[k].result.status = "error") =>
              /\ task[k].result.entries = <<>>
              /\ AfterJoin =>
                    /\ sourceRuns[k].venue_id = VenueIds[k]
                    /\ sourceRuns[k].status = "error"
                    /\ sourceRuns[k].entries_count = 0
                    /\ "error" \in DOMAIN sourceRuns[k]
                    /\ sourceRuns[k].error \in (ErrMsgs \ {""}) \cup {"Unknown error"}
    \* an exit with status 1 happens before any source was tried (the load
    \* failed) or after the resolution loop (the write of schedule.json failed)
    /\ exitCode = 1 =>
          \/ \A k \in 1..NumVenues : task[k].phase = "idle"
          \/ Len(sourceRuns) = NumVenues /\ cursor > Len(allRawEntries)
    /\ pc = "done" =>
          \A k \in 1..NumVenues :
              task[k].result.status = "ok" =>
                  \A i \in 1..Len(task[k].result.entries) :
                      \E j \in 1..Len(scheduleFile.schedule) :
                          /\ scheduleFile.schedule[j].date = task[k].result.entries[i].date
                          /\ scheduleFile.schedule[j].venue_id = VenueIds[k]
                          /\ \E t \in 1..Len(trucks) :
                                heap[trucks[t]].id = scheduleFile.schedule[j].truck_id

\* a finished run in which one source failed for good and another delivered
C6_Witness ==
    /\ pc = "done"
    /\ \E k \in 1..NumVenues : task[k].result.status = "error"
    /\ \E k \in 1..NumVenues :
          task[k].result.status = "ok" /\ task[k].result.entries # <<>>

\* C7: a source is attempted at most 3 times per run, is not attempted again
\* once an attempt has succeeded, and waits n times the base delay before
\* retry number n.
C7_Step ==
    \A k \in 1..NumVenues :
        /\ (Settled(task[k]) /\ pc' # "start") => task'[k] = task[k]
        /\ (task[k].phase = "running" /\ task'[k].phase = "sleeping") =>
              /\ task'[k].attempt = task[k].attempt + 1
              /\ task'[k].delay = task'[k].attempt * BackoffUnit
        /\ (task[k].phase = "sleeping" /\ task'[k] # task[k]) =>
              /\ task'[k].phase = "running"
              /\ task'[k].attempt = task[k].attempt

C7_BoundedLinearRetry ==
    /\ [](\A k \in 1..NumVenues :
            /\ task[k].attempt + 1 <= 3
            /\ task[k].phase = "sleeping" =>
                  /\ task[k].attempt \in {1, 2}
                  /\ task[k].delay = task[k].attempt * BackoffUnit)
    /\ [][C7_Step]_vars

\* a source waits for its second retry while another has already succeeded
C7_Witness ==
    \E k, j \in 1..NumVenues :
        /\ task[k].phase = "sleeping" /\ task[k].attempt = 2
        /\ Settled(task[j]) /\ task[j].result.status = "ok"

\* C8: resolution starts only when every source's call has returned; a step
\* of one call leaves the others as they are, a call that is running can
\* complete whatever the others do, and what a successful call returned is
\* among the observations resolved.
C8_Step ==
    \A j, k \in 1..NumVenues :
        (j # k /\ pc = "scraping" /\ task'[j] # task[j]) => task'[k] = task[k]

C8_JoinWaitsForAll ==
    /\ [](AfterJoin =>
            /\ \A k \in 1..NumVenues : task[k].phase = "returned"
            /\ \A k \in 1..NumVenues :
                  task[k].result.status = "ok" =>
                      Range(task[k].result.entries) \subseteq Range(allRawEntries))
    /\ [](pc = "scraping" =>
            \A k \in 1..NumVenues :
                task[k].phase = "running" => ENABLED ScrapeOk(k))
    /\ [][C8_Step]_vars

\* resolution is under way after one source failed for good and the other,
\* having retried, delivered observations
C8_Witness ==
    /\ pc = "resolving"
    /\ cursor > 1
    /\ \E k \in 1..NumVenues : task[k].result.status = "error"
    /\ \E k \in 1..NumVenues :
          task[k].result.status = "ok" /\ task[k].result.entries # <<>>

\* C9: when the normalized raw name is a key of the alias table and the
\* aliased id is in the registry, findMatch returns the truck with that id,
\* whatever other truck matches the name exactly, by substring or by slug.
C9_AliasWins ==
    probe.result # -1 =>
        LET aliasId == AliasLookup(normalizeName(probe.rawName))
        IN  (/\ aliasId # <<>>
             /\ \E i \in 1..Len(probe.registry) : probe.registry[i].id = aliasId)
            => /\ probe.result # 0
               /\ probe.registry[probe.result].id = aliasId

\* an aliased name whose exact normalized match is a truck with another id
C9_Witness ==
    /\ probe.result > 0
    /\ LET aliasId == AliasLookup(normalizeName(probe.rawName))
       IN  /\ aliasId # <<>>
           /\ probe.registry[probe.result].id = aliasId
           /\ \E i \in 1..Len(probe.registry) :
                 /\ normalizeName(probe.registry[i].name) = normalizeName(probe.rawName)
                 /\ probe.registry[i].id # aliasId

\* C10: a raw name whose normalized form is shorter than 4 is never matched
\* by the substring tier: without an alias, exact or derived-id match the
\* result is null; and any truck findMatch returns is an alias, exact or
\* derived-id match or has, like the raw name, a normalized name of 4 or more.
NoOtherTierMatches(rawName, registry, now) ==
    LET normalized == normalizeName(rawName)
        aliasId == AliasLookup(normalized)
    IN  \A i \in 1..Len(registry) :
            /\ aliasId = <<>> \/ registry[i].id # aliasId
            /\ normalizeName(registry[i].name) # normalized
            /\ registry[i].id # generateId(rawName, now)

C10_SubstringFloor ==
    (probe.result # -1 /\ NoOtherTierMatches(probe.rawName, probe.registry, clock)) =>
        /\ Len(normalizeName(probe.rawName)) < 4 => probe.result = 0
        /\ probe.result > 0 =>
              /\ Len(normalizeName(probe.rawName)) >= 4
              /\ Len(normalizeName(probe.registry[probe.result].name)) >= 4

\* a name of fewer than 4 characters that occurs inside a truck's name and
\* is left unmatched
C10_Witness ==
    /\ probe.result = 0
    /\ Len(normalizeName(probe.rawName)) \in 1..3
    /\ NoOtherTierMatches(probe.rawName, probe.registry, clock)
    /\ \E i \in 1..Len(probe.registry) :
          Includes(normalizeName(probe.registry[i].name), normalizeName(probe.rawName))


\* C11: normalizeName is idempotent: normalizing what normalizeName returned
\* gives it back unchanged.
C11_NormalizeIdempotent ==
    "again" \in probe.done => probe.renormalized = probe.normalized

\* C12: when the timestamp fallback is not taken, generateId returns a
\* non-empty string made only of a-z, 0-9 and "-".
SlugAlphabet ==
    (Range(LowerLetters) \ {"U00E9"}) \cup Range(DigitChars) \cup {"-"}

C12_IdCharset ==
    ("generateId" \in probe.done /\ Slug(probe.rawName) # <<>>) =>
        /\ probe.id # <<>>
        /\ Range(probe.id) \subseteq SlugAlphabet

\* C15: detectCuisine returns the first category, in table order, with a
\* keyword in the normalized name-plus-text, and "unknown" when there is
\* none; a text with a korean and an asian keyword is never classified asian,
\* and is classified korean unless a keyword of a category before korean
\* (hawaiian, kebab) occurs in it as well.
CombinedText == normalizeName(probe.rawName \o <<" ">> \o probe.extraText)

HasKeyword(text, k) ==
    \E i \in 1..Len(CUISINE_KEYWORDS[k].keywords) :
        Includes(text, CUISINE_KEYWORDS[k].keywords[i])

CategoryIndex(key) ==
    CHOOSE k \in 1..Len(CUISINE_KEYWORDS) : CUISINE_KEYWORDS[k].key = key

FirstCategoryWins ==
    /\ probe.cuisine.cuisine = "unknown" <=>
          \A k \in 1..Len(CUISINE_KEYWORDS) : ~HasKeyword(CombinedText, k)
    /\ probe.cuisine.cuisine # "unknown" =>
          LET k == CategoryIndex(probe.cuisine.cuisine)
          IN  /\ HasKeyword(CombinedText, k)
              /\ \A j \in 1..(k - 1) : ~HasKeyword(CombinedText, j)
              /\ probe.cuisine.cuisine_label = CUISINE_KEYWORDS[k].label

KoreanAndAsian ==
    /\ HasKeyword(CombinedText, CategoryIndex("korean"))
    /\ HasKeyword(CombinedText, CategoryIndex("asian"))

C15_FirstCategoryWins ==
    "detectCuisine" \in probe.done =>
        /\ FirstCategoryWins
        /\ KoreanAndAsian =>
              /\ probe.cuisine.cuisine # "asian"
              /\ (\A j \in 1..(CategoryIndex("korean") - 1) : ~HasKeyword(CombinedText, j))
                    => probe.cuisine.cuisine = "korean"

\* C15 as stated: a text with a korean and an asian keyword is always
\* classified korean
C15_KoreanAlways ==
    "detectCuisine" \in probe.done =>
        /\ FirstCategoryWins
        /\ KoreanAndAsian => probe.cuisine.cuisine = "korean"

\* a text whose asian keyword comes before its korean keyword, classified korean
C15_Witness ==
    /\ "detectCuisine" \in probe.done
    /\ probe.rawName = Name_ThaiPocha
    /\ KoreanAndAsian
    /\ probe.cuisine.cuisine = "korean"


\* C13: with the single observation (2026-02-16, first venue,
\* "Mr.Chicken" + U+2605 + "Torihanten") and a registry holding the truck
\* "mr-chicken", the run persists the entry (2026-02-16, first venue,
\* mr-chicken) and ends with as many trucks as it loaded.
C13_DecoratedAliasResolves ==
    (/\ pc = "done"
     /\ allRawEntries = <<Obs_MrChickenStar>>
     /\ \E i \in 1..Len(log.loadedTrucks) : log.loadedTrucks[i].id = Id_mrchicken)
    => /\ \E j \in 1..Len(scheduleFile.schedule) :
             /\ DOMAIN scheduleFile.schedule[j] = {"date", "venue_id", "truck_id"}
             /\ scheduleFile.schedule[j].date = Today
             /\ scheduleFile.schedule[j].venue_id = VenueIds[1]
             /\ scheduleFile.schedule[j].truck_id = Id_mrchicken
       /\ Len(trucks) = Len(log.loadedTrucks)

\* C14: an observation whose name has no alias, exact, substring or
\* derived-id match makes the run append exactly one truck, with id
\* generateId(raw name) ("totally-new-truck" for "Totally New Truck"), the
\* trimmed raw name and the classifier's cuisine, and emit the schedule entry
\* with that id.
C14_Step ==
    (pc = "resolving" /\ cursor <= Len(allRawEntries) /\ cursor' = cursor + 1) =>
        LET raw == allRawEntries[cursor]
            rawName == raw.truck_name_raw
            registry == Deref(heap, trucks)
            newId == generateId(rawName, clock')
        IN  (/\ AliasTier(rawName, registry) = 0
             /\ ExactTier(rawName, registry) = 0
             /\ SubstringTier(rawName, registry) = 0
             /\ \A i \in 1..Len(registry) : registry[i].id # newId)
            => /\ Len(trucks') = Len(trucks) + 1
               /\ SubSeq(trucks', 1, Len(trucks)) = trucks
               /\ newTruckCount' = newTruckCount + 1
               /\ LET t == heap'[trucks'[Len(trucks')]]
                  IN  /\ t.id = newId
                      /\ t.name = Trim(rawName)
                      /\ t.cuisine = detectCuisine(rawName, raw.detail_text).cuisine
                      /\ rawName = Name_TotallyNew =>
                            /\ t.id = Id_TotallyNew
                            /\ t.name = SubSeq(Name_TotallyNew, 2, Len(Name_TotallyNew))
               /\ newScheduleEntries' =
                     Append(newScheduleEntries,
                            ScheduleEntry(raw.date, raw.venue_id, newId))

C14_NewTruckAppended == [][C14_Step]_vars

\* the new name has been resolved: the registry holds its placeholder and
\* the fresh entries reference it
C14_Witness ==
    /\ pc = "resolving"
    /\ newTruckCount = 1
    /\ \E i \in 1..Len(trucks) :
          /\ heap[trucks[i]].id = Id_TotallyNew
          /\ heap[trucks[i]].cuisine = "curry"
          /\ i > Len(trucksData)
    /\ \E j \in 1..Len(newScheduleEntries) :
          newScheduleEntries[j] = ScheduleEntry(Today + 5, VenueIds[1], Id_TotallyNew)


\* C16: when the ids of the loaded registry are pairwise distinct, the ids of
\* the registry stay pairwise distinct while observations are resolved; an
\* observation whose name matches no truck by alias, exact or substring and
\* whose derived id is the id of a truck appends nothing and gets a schedule
\* entry with that truck's id.
DistinctIds(ts) ==
    \A i, j \in 1..Len(ts) : i # j => ts[i].id # ts[j].id

CurrentRegistry == [i \in 1..Len(trucks) |-> heap[trucks[i]]]

NoNameTierMatches(rawName, registry) ==
    /\ AliasTier(rawName, registry) = 0
    /\ ExactTier(rawName, registry) = 0
    /\ SubstringTier(rawName, registry) = 0

C16_Step ==
    (pc = "resolving" /\ cursor <= Len(allRawEntries) /\ cursor' = cursor + 1) =>
        LET raw == allRawEntries[cursor]
            derived == generateId(raw.truck_name_raw, clock')
        IN  (/\ NoNameTierMatches(raw.truck_name_raw, CurrentRegistry)
             /\ \E i \in 1..Len(trucks) : CurrentRegistry[i].id = derived)
            => /\ trucks' = trucks
               /\ newTruckCount' = newTruckCount
               /\ newScheduleEntries' =
                     Append(newScheduleEntries,
                            ScheduleEntry(raw.date, raw.venue_id, derived))

C16_IdsStayDistinct ==
    /\ []((RunStarted /\ DistinctIds(log.loadedTrucks)) => DistinctIds(CurrentRegistry))
    /\ [][C16_Step]_vars

\* the observation just resolved matched no name, its derived id is the id
\* of a truck, and its entry references that truck
C16_Witness ==
    /\ pc = "resolving"
    /\ cursor > 1
    /\ LET raw == allRawEntries[cursor - 1]
           derived == generateId(raw.truck_name_raw, clock)
       IN  /\ NoNameTierMatches(raw.truck_name_raw, CurrentRegistry)
           /\ \E i \in 1..Len(trucks) :
                 /\ CurrentRegistry[i].id = derived
                 /\ CurrentRegistry[i].name # Trim(raw.truck_name_raw)
           /\ newScheduleEntries[cursor - 1].truck_id = derived
           /\ DistinctIds(CurrentRegistry)


\* C17: across a run every truck of the loaded registry stays at its
\* position with its id, name, contact, url and preorder fields; its cuisine
\* and label differ from the loaded ones only if the loaded cuisine was
\* "unknown" and an observation resolved to the truck carried a non-empty
\* detail text for which the classifier, given the truck's name and that
\* text, returned the new category.
SameButCuisine(t, loaded) ==
    /\ t.id = loaded.id
    /\ t.name = loaded.name
    /\ t.contact_instagram = loaded.contact_instagram
    /\ t.url = loaded.url
    /\ t.accepts_preorder = loaded.accepts_preorder

CuisineBackfilled(t, loaded) ==
    \/ /\ t.cuisine = loaded.cuisine
       /\ t.cuisine_label = loaded.cuisine_label
    \/ /\ loaded.cuisine = "unknown"
       /\ t.cuisine # "unknown"
       /\ \E j \in 1..Len(newScheduleEntries) :
             /\ newScheduleEntries[j].truck_id = loaded.id
             /\ allRawEntries[j].detail_text # <<>>
             /\ detectCuisine(loaded.name, allRawEntries[j].detail_text) =
                   [cuisine |-> t.cuisine, cuisine_label |-> t.cuisine_label]

C17_LoadedTrucksKept ==
    RunStarted =>
        /\ Len(trucks) >= Len(log.loadedTrucks)
        /\ \A i \in 1..Len(log.loadedTrucks) :
              /\ SameButCuisine(heap[trucks[i]], log.loadedTrucks[i])
              /\ CuisineBackfilled(heap[trucks[i]], log.loadedTrucks[i])
        /\ Wrote("trucks.json") =>
              /\ Len(trucksFile.trucks) >= Len(log.loadedTrucks)
              /\ \A i \in 1..Len(log.loadedTrucks) :
                    /\ SameButCuisine(trucksFile.trucks[i], log.loadedTrucks[i])
                    /\ CuisineBackfilled(trucksFile.trucks[i], log.loadedTrucks[i])

\* a finished run that backfilled the cuisine of a loaded truck from the
\* detail text of an observation resolved to it
C17_Witness ==
    /\ pc = "done"
    /\ Len(log.loadedTrucks) = 1
    /\ log.loadedTrucks[1].cuisine = "unknown"
    /\ heap[trucks[1]].cuisine = "korean"
    /\ \E j \in 1..Len(newScheduleEntries) :
          /\ newScheduleEntries[j].truck_id = log.loadedTrucks[1].id
          /\ allRawEntries[j].detail_text # <<>>


\* C18: when the prior schedule.json is missing, is not valid JSON, has no
\* schedule array or holds an entry without the expected fields, the
\* carry-over set is empty, nothing is raised, and the run persists the
\* schedule built from the fresh observations alone.
C18_MalformedPriorIgnored ==
    (RunStarted /\ Malformed(log.loadedSchedule)) =>
        /\ existingEntries = <<>>
        /\ exitCode # 1
        /\ pc = "done" =>
              /\ Wrote("schedule.json")
              /\ scheduleFile.schedule = Dedup(newScheduleEntries)


\* C19: a run ends in a fatal failure (exit code 1) only when every source
\* failed; a trucks.json that is not valid JSON or has no trucks list does
\* not abort the run.
C19_OnlyAllFailedIsFatal ==
    exitCode = 1 => AllSourcesFailed

\* C20: for every venue of the coverage statistics, days_with_data is the
\* number of Monday-to-Friday dates of the window on which the venue has an
\* entry, and days_with_data plus the number of missing weekdays is the
\* number of weekdays in the window.
WeekdaysWithData(schedule, venueId) ==
    {d \in Range(weekDates) :
        /\ getDay(d) \in 1..5
        /\ \E i \in 1..Len(schedule) :
              VenueOf(schedule[i]) = venueId /\ schedule[i].date = d}

C20_CoverageCountsWeekdays ==
    Wrote("schedule.json") =>
        LET perVenue == scheduleFile.data_quality.per_venue
        IN  \A i \in 1..Len(perVenue) :
                LET stats == perVenue[i][2]
                IN  /\ stats.days_with_data =
                          Cardinality(WeekdaysWithData(scheduleFile.schedule, perVenue[i][1]))
                    /\ stats.days_with_data + Len(stats.missing_weekdays) =
                          stats.weekdays_in_window


\* the call of the adapter under test has returned a list
ScrapeReturned == pc = "adapter" /\ probe.done /\ ~probe.threw

\* C21: the list one scrape call returns holds no two observations with the
\* same truck_name_raw and the same date, for each of the three adapters.
C21_NoDuplicateObservations ==
    ScrapeReturned =>
        \A i, j \in 1..Len(probe.entries) :
            (/\ probe.entries[i].truck_name_raw = probe.entries[j].truck_name_raw
             /\ probe.entries[i].date = probe.entries[j].date) => i = j

\* the window dates that some date expression of the page names: a weekday
\* header (kawabata), a recurring weekday or a written date (mellow), a tab
\* date (neo-yatai)
NamedDates(a) ==
    {d \in Range(AdapterWeekDates) :
        IF a.parser = "kawabata"
        THEN \E i \in 1..Len(a.page) :
                /\ a.page[i].tag = "h2"
                /\ Includes(a.page[i].text, <<JP_DAYS[getDay(d) + 1], Yo>>)
        ELSE IF a.parser = "mellow"
        THEN \E i \in 1..Len(a.page) :
                \/ a.page[i].recurring = <<JP_DAYS[getDay(d) + 1]>>
                \/ a.page[i].ymd = FormatDateISO(d)
                \/ a.page[i].md = MonthDay(d)
                \/ a.page[i].next = MonthDay(d)
        ELSE \E i \in 1..Len(a.page.tabs) : a.page.tabs[i] = MonthDay(d)}

\* C22: every observation an adapter returns is dated on a date of the
\* targetDates it was given, and on one that a date expression of the page
\* names; an expression naming no date of the window yields no observation.
C22_DatesInsideWindow ==
    ScrapeReturned =>
        \A k \in 1..Len(probe.entries) : probe.entries[k].date \in NamedDates(probe)

\* a returned list from a page that names a date inside and a date outside
\* the window
C22_Witness ==
    /\ ScrapeReturned
    /\ probe.parser = "mellow"
    /\ probe.entries # <<>>
    /\ \E i \in 1..Len(probe.page) :
          probe.page[i].ymd = FormatDateISO(Today + WindowDays)

\* the detail path of each returned observation, in order
EntryPaths(a) ==
    IF a.parser = "kawabata"
    THEN LET raw == KawabataRawEntries(a.page, VENUES[1][1], AdapterWeekDates)
         IN  [k \in 1..Len(raw) |-> raw[k].detailPath]
    ELSE LET deduped == MellowDeduped(a.page, VENUES[2][1], AdapterWeekDates)
         IN  [k \in 1..Len(deduped) |-> deduped[k].shop_path]

\* what the call returns when every detail fetch succeeds
AllDetailsFetched(a) ==
    LET paths == Range(EntryPaths(a))
    IN  IF a.parser = "kawabata"
        THEN KawabataScrape(a.page, VENUES[1][1], AdapterWeekDates, DetailTexts(paths, {}))
        ELSE MellowScrape(a.page, VENUES[2][1], AdapterWeekDates, DetailTexts(paths, {}))

\* C23: in the adapters that fetch detail pages, whichever detail fetches
\* fail, scrape does not raise and returns the observations it returns when
\* all of them succeed, with detail_text '' for the failed pages.
C23_DetailFailuresSwallowed ==
    (pc = "adapter" /\ probe.done /\ probe.parser \in {"kawabata", "mellow"}) =>
        /\ probe.failed # {} => ~probe.threw
        /\ ~probe.threw =>
              LET full == AllDetailsFetched(probe)
                  paths == EntryPaths(probe)
              IN  /\ Len(probe.entries) = Len(full)
                  /\ \A k \in 1..Len(full) :
                        probe.entries[k] =
                            IF paths[k] \in probe.failed
                            THEN [full[k] EXCEPT !.detail_text = <<>>]
                            ELSE full[k]

\* a call that returned observations although one detail fetch failed and
\* another succeeded
C23_Witness ==
    /\ ScrapeReturned
    /\ probe.parser \in {"kawabata", "mellow"}
    /\ probe.failed # {}
    /\ \E k \in 1..Len(probe.entries) : probe.entries[k].detail_text = <<>>
    /\ \E k \in 1..Len(probe.entries) : probe.entries[k].detail_text # <<>>


\* the truck id the resolution loop gives an observation against a registry
\* when Date.now() returns now
ResolvedIdAt(raw, registry, now) ==
    LET match == findMatch(raw.truck_name_raw, registry, now)
    IN  IF match # 0 THEN registry[match].id
        ELSE createPlaceholder(raw.truck_name_raw, raw.detail_text, now).id

\* C24: the (date, venue_id, truck_id) triple that resolving an observation
\* against a registry appends is the same at whatever time it is executed,
\* also for a name that takes the time-based id fallback.
C24_Step ==
    (pc = "resolving" /\ cursor' = cursor + 1) =>
        \A now \in 0..ClockCap(MaxRuns) :
            newScheduleEntries'[Len(newScheduleEntries')] =
                ScheduleEntry(allRawEntries[cursor].date, allRawEntries[cursor].venue_id,
                              ResolvedIdAt(allRawEntries[cursor], Deref(heap, trucks), now))

C24_ResolutionTimeIndependent == [][C24_Step]_vars


\* C26: an observation whose name is entirely non-Latin (its slug is empty)
\* and matches no registry entry by alias, exact name or substring gets a
\* placeholder id that no registry entry has yet, and is appended as a
\* registry entry of its own, also right after another such observation.
C26_Step ==
    (/\ pc = "resolving"
     /\ cursor' = cursor + 1
     /\ Slug(allRawEntries[cursor].truck_name_raw) = <<>>
     /\ NoNameTierMatches(allRawEntries[cursor].truck_name_raw, CurrentRegistry)) =>
        /\ Len(trucks') = Len(trucks) + 1
        /\ \A i \in 1..Len(trucks) :
              heap'[trucks'[Len(trucks')]].id # heap[trucks[i]].id

C26_FallbackIdUnique == [][C26_Step]_vars


\* C25: once a run has persisted the schedule, the truck_id of each of its
\* entries, carried over or newly resolved, is the id of a truck of
\* trucks.json as the run leaves it.
C25_EntriesReferenceTrucks ==
    (pc = "done" /\ Wrote("schedule.json")) =>
        \A i \in 1..Len(scheduleFile.schedule) :
            \E j \in 1..Len(trucksFile.trucks) :
                trucksFile.trucks[j].id = TruckIdOf(scheduleFile.schedule[i])

\* C27: at no moment, also when the run fails between its two writes, does
\* trucks.json hold what this run wrote while schedule.json still holds what
\* the run found.
C27_WritesAtomic ==
    Wrote("trucks.json") => Wrote("schedule.json")


\* C28: whatever the order in which the scraper calls returned and however
\* many attempts each took, source_runs lists the venues in configuration
\* order with each venue's own result, and the raw observations are resolved
\* venue by venue in configuration order; the persisted source_runs are those.
C28_ResultsInVenueOrder ==
    AfterJoin =>
        /\ \A k \in 1..NumVenues :
              /\ sourceRuns[k].venue_id = VenueIds[k]
              /\ sourceRuns[k] = SourceRun(task[k].result)
        /\ allRawEntries = Flatten([k \in 1..NumVenues |-> task[k].result.entries])
        /\ Wrote("schedule.json") => scheduleFile.source_runs = sourceRuns

\* a finished run in which the last venue returned first and both venues
\* delivered observations
C28_Witness ==
    /\ pc = "done"
    /\ log.finished = <<NumVenues, 1>>
    /\ \A k \in 1..NumVenues : task[k].result.status = "ok" /\ task[k].result.entries # <<>>
    /\ Len(scheduleFile.schedule) >= NumVenues


\* C29: every entry of the prior schedule.json dated inside the new window is
\* an entry of the schedule the run persists, whether its source failed,
\* delivered it again or delivered without it.
C29_InWindowEntriesKept ==
    (Wrote("schedule.json") /\ log.loadedSchedule.kind = "ok") =>
        \A i \in 1..Len(log.loadedSchedule.schedule) :
            InWindow(log.loadedSchedule.schedule[i].date) =>
                log.loadedSchedule.schedule[i] \in Range(scheduleFile.schedule)

\* a finished run whose prior schedule held an in-window entry of a venue
\* that this time delivered observations without that entry
C29_Witness ==
    /\ pc = "done"
    /\ log.loadedSchedule.kind = "ok"
    /\ \E i \in 1..Len(log.loadedSchedule.schedule) :
          LET e == log.loadedSchedule.schedule[i]
          IN  /\ InWindow(e.date)
              /\ e \notin Range(newScheduleEntries)
              /\ e \in Range(scheduleFile.schedule)
              /\ \E k \in 1..NumVenues :
                    /\ VenueIds[k] = e.venue_id
                    /\ sourceRuns[k].status = "ok"
                    /\ sourceRuns[k].entries_count > 0

\* C30: every key of the alias table is a fixed point of normalizeName:
\* normalizing the key gives the key.
C30_AliasKeysNormalized ==
    (pc = "text" /\ "normalizeName" \in probe.done) =>
        \A i \in 1..Len(ALIASES) :
            probe.rawName = ALIASES[i][1] => probe.normalized = probe.rawName

====
